---- MODULE Spec2Model ----
(***************************************************************************)
(* KamaCache replacement policies: KLruCache, KLruKCache, KLfuCache and    *)
(* KArcCache (ArcLruPart + ArcLfuPart), modelled as state machines whose   *)
(* actions are the public put / get / remove / purge calls.                *)
(*                                                                         *)
(* A list is a sequence of keys (or of node records where the code can     *)
(* leave a node linked after its index entry is gone); an index            *)
(* (unordered_map) is a function whose DOMAIN is the set of keys it holds. *)
(***************************************************************************)
EXTENDS Integers, Sequences, FiniteSets, TLC

(***************************************************************************)
(* Bounds of the model.                                                    *)
(***************************************************************************)
MaxCapacity == 3            \* KLruCache capacities 0..MaxCapacity
MaxLruKCapacity == 1        \* KLruKCache main capacities 0..MaxLruKCapacity
MaxHistoryCapacity == 1     \* KLruKCache history capacities 0..MaxHistoryCapacity
MaxK == 2                   \* KLruKCache thresholds 1..MaxK
MaxHistoryCount == 3        \* no call once a key's history count is this high
MaxLfuCapacity == 2         \* KLfuCache capacities 0..MaxLfuCapacity
MaxTotal == 6               \* no KLfuCache put/get once curTotalNum_ is this high
MaxTotalHot == 128          \* the same, for the single hot key of SpecLfuHot
MaxArcCapacity == 2         \* KArcCache capacities 0..MaxArcCapacity
MaxAccessCount == 2         \* no KArcCache call on a key whose accessCount_ is this high
MaxGhostLen == 2            \* no KArcCache call once a ghost list is this long
DeepAccessCount == 3        \* the same two bounds for the longer runs of SpecArcDeep
DeepGhostLen == 3
MaxThreads == 2             \* the threads that call one instance concurrently
MaxConcCapacity == 2        \* capacities 0..MaxConcCapacity of an instance shared by threads
ScenarioHits == 20          \* the hits on the first key of the aging scenario
MaxSliceNum == 4             \* KHashLruCaches / KHashLfuCache slice counts 2 and MaxSliceNum
MaxHashCapacity == 4         \* their total capacities 0..MaxHashCapacity
MaxSliceTotal == 2           \* no call on a KLfuCache slice once its curTotalNum_ is this high
MaxTotalAging == 24         \* no KLfuCache put/get of SpecLfuAging once curTotalNum_ is this high

\* The keys and values the calls are drawn from.
Keys == {1, 2, 3}
LruKeys == {1, 2, 3, 4}      \* the keys of the KLruCache calls
Vals == {1, 2}
LruKKeys == {1, 2}          \* the keys of the KLruKCache calls
LfuMaxAverages == {1, 4}    \* the maxAverageNum arguments of KLfuCache
HotKeys == {1, 2}           \* the keys of SpecLfuHot
HotVals == {1}
HashKeys == 0..4            \* the keys of the KHashLruCaches / KHashLfuCache calls
HotHashKeys == {1, 3}       \* two keys of one slice out of two
\* the values of the KLruCache and KArcCache puts: only key 1 is ever
\* overwritten with a different value
ValsOf(key) == IF key = 1 THEN Vals ELSE {1}

\* The transformThreshold argument of KArcCache (its default).
TransformThreshold == 2

\* INT8_MAX of <cstdint>, the start value and sentinel of KLfuCache::minFreq_.
INT8_MAX == 127

\* Value{} / Key(): what a value-initialised int-like Value or Key holds.
DefaultValue == 0
DefaultKey == 0

VARIABLES
    policy,     \* which policy class the program constructed
    lru,        \* the KLruCache instance
    lruk,       \* the KLruKCache instance
    lfu,        \* the KLfuCache instance
    arc,        \* the KArcCache instance
    call,       \* the last public call and what it returned
    lastPut,    \* per key, the value of the most recent put (DefaultValue: never put)
    recency,    \* the keys held by the LRU list, in the order of their most recent put or hit-get
    observed,   \* per key, how many KLruKCache::put/get calls named it (up to MaxK)
    scenario,   \* how far the calls made so far follow the aging scenario
    threads,    \* per thread, the call it is in and where in its code it stands
    mutex_,     \* the thread holding the instance's std::mutex (0: unlocked)
    forked,     \* the instance as it was when the threads started their calls
    purged,     \* TRUE from a KLfuCache::purge to the next put
    removedKeys, \* the keys KLruCache::remove was called on since their last put
    ghostHit,   \* the ghost list the last KArcCache call found its key in, and both capacities before it
    hashLru,    \* the KHashLruCaches instance
    hashLfu     \* the KHashLfuCache instance

vars == <<policy, lru, lruk, lfu, arc, call, lastPut, recency, observed,
          scenario, threads, mutex_, forked, purged, removedKeys,
          ghostHit, hashLru, hashLfu>>

\* What the calls of a single thread leave alone.
conc == <<threads, mutex_, forked>>

\* What the calls on KLruCache and KLfuCache have dropped.
gone == <<purged, removedKeys>>

\* What the last call dropped or found in a ghost list.
dropped == <<purged, removedKeys, ghostHit>>

\* The sliced policies.
sliced == <<hashLru, hashLfu>>

(***************************************************************************)
(* Helpers on indices and lists.                                           *)
(***************************************************************************)
EmptyMap == [k \in {} |-> DefaultValue]

MapPut(f, k, v) == [x \in (DOMAIN f) \cup {k} |-> IF x = k THEN v ELSE f[x]]

MapErase(f, k) == [x \in (DOMAIN f) \ {k} |-> f[x]]

SeqRemove(s, k) == SelectSeq(s, LAMBDA x : x # k)

SeqSet(s) == {s[i] : i \in 1..Len(s)}

Live(s, keys) == SelectSeq(s, LAMBDA x : x \in keys)

Touch(s, k) == Append(SeqRemove(s, k), k)

(***************************************************************************)
(* KLruCache.  list runs from dummyHead_ (least recent) to dummyTail_      *)
(* (most recent).                                                          *)
(***************************************************************************)
LruNew(capacity) ==
    [capacity_ |-> capacity, nodeMap_ |-> EmptyMap, list |-> <<>>]

\* removeNode: unlink the node if it is linked.
LruRemoveNode(c, key) == [c EXCEPT !.list = SeqRemove(c.list, key)]

\* insertNode: link the node just before dummyTail_.
LruInsertNode(c, key) == [c EXCEPT !.list = Append(c.list, key)]

\* moveToMostRecent
LruMoveToMostRecent(c, key) == LruInsertNode(LruRemoveNode(c, key), key)

\* evictLeastRecent that takes the node before dummyTail_ instead (a faulty
\* variant least-recency eviction must reject)
LruEvictMostRecent(c) ==
    IF c.list = <<>> THEN c
    ELSE LET mostRecent == c.list[Len(c.list)]
         IN  [LruRemoveNode(c, mostRecent)
                EXCEPT !.nodeMap_ = MapErase(c.nodeMap_, mostRecent)]

\* evictLeastRecent: dummyHead_->next_ is unlinked and its key erased; on an
\* empty list that node is dummyTail_, which removeNode leaves alone and
\* whose key is Key().
LruEvictLeastRecent(c) ==
    IF c.list = <<>>
    THEN [c EXCEPT !.nodeMap_ = MapErase(c.nodeMap_, DefaultKey)]
    ELSE LET leastRecent == Head(c.list)
         IN  [LruRemoveNode(c, leastRecent)
                EXCEPT !.nodeMap_ = MapErase(c.nodeMap_, leastRecent)]

\* updateExistingNode that keeps the old value (a faulty variant put-get
\* coherence must reject)
LruUpdateExistingNodeStale(c, key, value) == LruMoveToMostRecent(c, key)

\* updateExistingNode
LruUpdateExistingNode(c, key, value) ==
    LruMoveToMostRecent([c EXCEPT !.nodeMap_ = MapPut(c.nodeMap_, key, value)], key)

\* addNewNode that forgets to evict (a faulty variant the capacity bound must reject)
LruAddNewNodeNoEvict(c, key, value) ==
    [LruInsertNode(c, key) EXCEPT !.nodeMap_ = MapPut(c.nodeMap_, key, value)]

\* addNewNode
LruAddNewNode(c, key, value) ==
    LET d == IF Cardinality(DOMAIN c.nodeMap_) >= c.capacity_
             THEN LruEvictLeastRecent(c) ELSE c
    IN  [LruInsertNode(d, key) EXCEPT !.nodeMap_ = MapPut(d.nodeMap_, key, value)]

\* put
LruPut(c, key, value) ==
    IF c.capacity_ <= 0 THEN c
    ELSE IF key \in DOMAIN c.nodeMap_ THEN LruUpdateExistingNode(c, key, value)
    ELSE LruAddNewNode(c, key, value)

\* bool get(Key, Value&): the cache afterwards, the result, and the out value
\* (left as the caller initialised it on a miss).
LruGet(c, key, initial) ==
    IF key \in DOMAIN c.nodeMap_
    THEN [cache |-> LruMoveToMostRecent(c, key), hit |-> TRUE,
          value |-> c.nodeMap_[key]]
    ELSE [cache |-> c, hit |-> FALSE, value |-> initial]

\* Value get(Key)
LruGetValue(c, key) == LruGet(c, key, DefaultValue)

\* remove that unlinks the node and leaves its key in nodeMap_ (a faulty
\* variant the effect of remove must reject)
LruRemoveKeepsIndex(c, key) ==
    IF key \in DOMAIN c.nodeMap_ THEN LruRemoveNode(c, key) ELSE c

\* remove
LruRemove(c, key) ==
    IF key \in DOMAIN c.nodeMap_
    THEN [LruRemoveNode(c, key) EXCEPT !.nodeMap_ = MapErase(c.nodeMap_, key)]
    ELSE c

(***************************************************************************)
(* KLruKCache: a KLruCache (the admitted cache, its base class) plus a     *)
(* KLruCache<Key, size_t> of access counts and the map of pending values.  *)
(***************************************************************************)
LruKNew(capacity, historyCapacity, k) ==
    [main |-> LruNew(capacity), historyList_ |-> LruNew(historyCapacity),
     historyValueMap_ |-> EmptyMap, k_ |-> k]

\* The first lines of get and of put: historyList_->get(key), ++, put back.
LruKCountAccess(c, key) ==
    LET h == LruGetValue(c.historyList_, key)
        historyCount == h.value + 1
    IN  [historyCount |-> historyCount,
         historyList_ |-> LruPut(h.cache, key, historyCount)]

\* get that never admits from the history (a faulty variant the admission
\* by the second observation must reject)
LruKGetNeverAdmits(c, key) ==
    LET m == LruGet(c.main, key, DefaultValue)
        a == LruKCountAccess(c, key)
    IN  [cache |-> [c EXCEPT !.main = m.cache, !.historyList_ = a.historyList_],
         hit |-> m.hit, value |-> m.value]

\* get that admits on the count alone, with no pending value (a faulty
\* variant the miss of a never-put key must reject)
LruKGetNoPending(c, key) ==
    LET m == LruGet(c.main, key, DefaultValue)
        a == LruKCountAccess(c, key)
        counted == [c EXCEPT !.main = m.cache, !.historyList_ = a.historyList_]
    IN  IF m.hit \/ a.historyCount >= c.k_
        THEN [cache |-> counted, hit |-> TRUE, value |-> m.value]
        ELSE [cache |-> counted, hit |-> FALSE, value |-> m.value]

\* Value KLruKCache::get(Key)
LruKGet(c, key) ==
    LET m == LruGet(c.main, key, DefaultValue)
        a == LruKCountAccess(c, key)
        counted == [c EXCEPT !.main = m.cache, !.historyList_ = a.historyList_]
    IN  IF m.hit
        THEN [cache |-> counted, hit |-> TRUE, value |-> m.value]
        ELSE IF a.historyCount >= c.k_ /\ key \in DOMAIN c.historyValueMap_
        THEN LET storedValue == c.historyValueMap_[key]
             IN  [cache |-> [counted EXCEPT
                               !.historyList_ = LruRemove(a.historyList_, key),
                               !.historyValueMap_ = MapErase(c.historyValueMap_, key),
                               !.main = LruPut(m.cache, key, storedValue)],
                  hit |-> TRUE, value |-> storedValue]
        ELSE [cache |-> counted, hit |-> FALSE, value |-> m.value]

\* put that admits at once, whatever the count (a faulty variant the
\* admission gate must reject)
LruKPutNoGate(c, key, value) ==
    [c EXCEPT !.main = LruPut(c.main, key, value)]

\* void KLruKCache::put(Key, Value)
LruKPut(c, key, value) ==
    LET m == LruGet(c.main, key, DefaultValue)
    IN  IF m.hit
        THEN [c EXCEPT !.main = LruPut(m.cache, key, value)]
        ELSE LET a == LruKCountAccess(c, key)
                 pending == MapPut(c.historyValueMap_, key, value)
             IN  IF a.historyCount >= c.k_
                 THEN [c EXCEPT !.historyList_ = LruRemove(a.historyList_, key),
                                !.historyValueMap_ = MapErase(pending, key),
                                !.main = LruPut(m.cache, key, value)]
                 ELSE [c EXCEPT !.historyList_ = a.historyList_,
                                !.historyValueMap_ = pending]

\* The access count the history holds for key (0: none).
LruKHistoryCount(c, key) ==
    IF key \in DOMAIN c.historyList_.nodeMap_
    THEN c.historyList_.nodeMap_[key] ELSE 0

IdleLruK == LruKNew(0, 0, 1)

IdleLru == LruNew(0)

NeverSeen == [k \in LruKeys |-> 0]

Seen(o, key) == [o EXCEPT ![key] = IF @ < MaxK THEN @ + 1 ELSE @]

(***************************************************************************)
(* KLfuCache.                                                              *)
(*   nodeMap_        : key -> [value, freq] of the node the index holds    *)
(*   freqToFreqList_ : the entries [freq, nodes] of the map, nodes being    *)
(*                     the FreqList of that frequency from head_ to tail_;  *)
(*                     a linked node is [key, mapped], mapped telling       *)
(*                     whether nodeMap_[key] is this node                  *)
(*   fault           : a null FreqList* was dereferenced                   *)
(***************************************************************************)
LfuNew(capacity, maxAverageNum) ==
    [capacity_ |-> capacity, minFreq_ |-> INT8_MAX,
     maxAverageNum_ |-> maxAverageNum, curAverageNum_ |-> 0, curTotalNum_ |-> 0,
     nodeMap_ |-> EmptyMap, freqToFreqList_ |-> {}, fault |-> FALSE]

\* freqToFreqList_.find(freq) != end()
HasFreqList(c, freq) == \E e \in c.freqToFreqList_ : e.freq = freq

\* The nodes of freqToFreqList_[freq], which exists
FreqListNodes(c, freq) == (CHOOSE e \in c.freqToFreqList_ : e.freq = freq).nodes

\* c with freqToFreqList_[freq] holding nodes
WithFreqList(c, freq, nodes) ==
    [c EXCEPT !.freqToFreqList_ =
        {e \in @ : e.freq # freq} \cup {[freq |-> freq, nodes |-> nodes]}]

\* int / int of C++: the quotient truncated toward zero.
CDiv(a, b) ==
    IF (a >= 0) = (b >= 0) THEN (IF a >= 0 THEN a ELSE -a) \div (IF b >= 0 THEN b ELSE -b)
    ELSE -((IF a >= 0 THEN a ELSE -a) \div (IF b >= 0 THEN b ELSE -b))

MinInt(a, b) == IF a <= b THEN a ELSE b

\* FreqList::isEmpty on a list that exists
FreqListIsEmpty(c, freq) == FreqListNodes(c, freq) = <<>>

\* The recomputation of curAverageNum_ shared by addFreqNum and decreaseFreqNum.
LfuAverage(c) ==
    IF DOMAIN c.nodeMap_ = {} THEN 0
    ELSE CDiv(c.curTotalNum_, Cardinality(DOMAIN c.nodeMap_))

\* removeFromFreqList of the node nodeMap_ holds for key
LfuRemoveFromFreqList(c, key) ==
    LET freq == c.nodeMap_[key].freq
    IN  IF ~HasFreqList(c, freq) THEN [c EXCEPT !.fault = TRUE]
        ELSE WithFreqList(c, freq,
                 SelectSeq(FreqListNodes(c, freq), LAMBDA n : ~(n.key = key /\ n.mapped)))

\* addToFreqList of the node nodeMap_ holds for key
LfuAddToFreqList(c, key) ==
    LET freq == c.nodeMap_[key].freq
        nodes == IF HasFreqList(c, freq) THEN FreqListNodes(c, freq) ELSE <<>>
    IN  WithFreqList(c, freq, Append(nodes, [key |-> key, mapped |-> TRUE]))

\* updateMinFreq
LfuUpdateMinFreq(c) ==
    LET nonEmpty == {e.freq : e \in {d \in c.freqToFreqList_ : d.nodes # <<>>}}
        below == {f \in nonEmpty : f < INT8_MAX}
        least == IF below = {} THEN INT8_MAX
                 ELSE CHOOSE f \in below : \A g \in below : f <= g
    IN  [c EXCEPT !.minFreq_ = IF least = INT8_MAX THEN 1 ELSE least]

\* The orders in which an unordered_map holding keys may be iterated.
Orders(keys) ==
    LET n == Cardinality(keys)
    IN  IF n = 0 THEN {<<>>}
        ELSE IF n = 1 THEN {<<k>> : k \in keys}
        ELSE IF n = 2 THEN {<<a, b>> : a, b \in keys} \ {<<k, k>> : k \in keys}
        ELSE {o \in {<<a, b>> \o t : a, b \in keys, t \in [1..(n - 2) -> keys]} :
                \A i, j \in 1..n : i # j => o[i] # o[j]}

\* The loop of handleOverMaxAverageNum over the nodes of nodeMap_ still to be
\* visited.
RECURSIVE LfuAgeNodes(_, _)
LfuAgeNodes(c, order) ==
    IF order = <<>> \/ c.fault THEN c
    ELSE LET key == Head(order)
             removed == LfuRemoveFromFreqList(c, key)
             lowered == c.nodeMap_[key].freq - CDiv(c.maxAverageNum_, 2)
             aged == [removed EXCEPT !.nodeMap_[key].freq =
                         IF lowered < 1 THEN 1 ELSE lowered]
         IN  IF removed.fault THEN removed
             ELSE LfuAgeNodes(LfuAddToFreqList(aged, key), Tail(order))

\* handleOverMaxAverageNum: the caches it can leave, one for each order in
\* which the unordered_map nodeMap_ may yield its nodes.
LfuHandleOverMaxAverageNum(c) ==
    IF DOMAIN c.nodeMap_ = {} THEN {c}
    ELSE {LET aged == LfuAgeNodes(c, order)
          IN  IF aged.fault THEN aged ELSE LfuUpdateMinFreq(aged) :
            order \in Orders(DOMAIN c.nodeMap_)}

\* addFreqNum that ages as soon as the average reaches maxAverageNum_ (a
\* faulty variant the aging condition must reject)
LfuAddFreqNumEager(c) ==
    LET counted == [c EXCEPT !.curTotalNum_ = @ + 1]
        averaged == [counted EXCEPT !.curAverageNum_ = LfuAverage(counted)]
    IN  IF averaged.curAverageNum_ >= averaged.maxAverageNum_
        THEN LfuHandleOverMaxAverageNum(averaged)
        ELSE {averaged}

\* addFreqNum: the caches it can leave
LfuAddFreqNum(c) ==
    LET counted == [c EXCEPT !.curTotalNum_ = @ + 1]
        averaged == [counted EXCEPT !.curAverageNum_ = LfuAverage(counted)]
    IN  IF averaged.curAverageNum_ > averaged.maxAverageNum_
        THEN LfuHandleOverMaxAverageNum(averaged)
        ELSE {averaged}

\* decreaseFreqNum
LfuDecreaseFreqNum(c, num) ==
    LET counted == [c EXCEPT !.curTotalNum_ = @ - num]
    IN  [counted EXCEPT !.curAverageNum_ = LfuAverage(counted)]

\* getInternal: the caches it can leave
LfuGetInternal(c, key) ==
    LET removed == LfuRemoveFromFreqList(c, key)
        oldFreq == c.nodeMap_[key].freq
        moved == LfuAddToFreqList([removed EXCEPT !.nodeMap_[key].freq = oldFreq + 1],
                                  key)
        stepped == IF oldFreq = c.minFreq_ /\ FreqListIsEmpty(moved, oldFreq)
                   THEN [moved EXCEPT !.minFreq_ = @ + 1] ELSE moved
    IN  IF removed.fault THEN {removed} ELSE LfuAddFreqNum(stepped)

\* A list in which no node of key is the one its index holds any more.
RECURSIVE Unmapped(_, _)
Unmapped(list, key) ==
    IF list = <<>> THEN <<>>
    ELSE <<IF Head(list).key = key THEN [key |-> key, mapped |-> FALSE]
           ELSE Head(list)>> \o Unmapped(Tail(list), key)

\* nodeMap_.erase(key): the node of that key, if any, stays where it is linked.
LfuEraseKey(c, key) ==
    IF key \notin DOMAIN c.nodeMap_ THEN c
    ELSE [c EXCEPT !.nodeMap_ = MapErase(@, key),
                   !.freqToFreqList_ =
                      {[freq |-> e.freq, nodes |-> Unmapped(e.nodes, key)] : e \in @}]

\* What the read of the key of a Node() can yield: the member is never set.
GarbageKeys == Keys \cup {DefaultKey}

\* kickOut: the caches it can leave.  getFirstNode of an empty list is tail_,
\* a Node() whose freq is 1, whose next is null (removeNode returns) and whose
\* key was never set.
LfuKickOut(c) ==
    IF ~HasFreqList(c, c.minFreq_) THEN {[c EXCEPT !.fault = TRUE]}
    ELSE IF FreqListIsEmpty(c, c.minFreq_)
    THEN IF ~HasFreqList(c, 1) THEN {[c EXCEPT !.fault = TRUE]}
         ELSE {LfuDecreaseFreqNum(LfuEraseKey(c, garbage), 1) : garbage \in GarbageKeys}
    ELSE LET node == Head(FreqListNodes(c, c.minFreq_))
             unlinked == WithFreqList(c, c.minFreq_, Tail(FreqListNodes(c, c.minFreq_)))
         IN  {LfuDecreaseFreqNum(LfuEraseKey(unlinked, node.key), c.minFreq_)}

\* The rest of putInternal once there is room.
LfuInsert(room, key, value) ==
    IF room.fault THEN {room}
    ELSE LET added == LfuAddToFreqList(
                         [room EXCEPT !.nodeMap_ =
                             MapPut(@, key, [value |-> value, freq |-> 1])], key)
         IN  {IF counted.fault THEN counted
              ELSE [counted EXCEPT !.minFreq_ = MinInt(@, 1)] :
                counted \in LfuAddFreqNum(added)}

\* putInternal: the caches it can leave
LfuPutInternal(c, key, value) ==
    UNION {LfuInsert(room, key, value) :
             room \in IF Cardinality(DOMAIN c.nodeMap_) = c.capacity_
                      THEN LfuKickOut(c) ELSE {c}}

\* put: the caches it can leave
LfuPut(c, key, value) ==
    IF c.capacity_ = 0 THEN {c}
    ELSE IF key \in DOMAIN c.nodeMap_
    THEN LfuGetInternal([c EXCEPT !.nodeMap_[key].value = value], key)
    ELSE LfuPutInternal(c, key, value)

\* bool get(Key, Value&): the outcomes it can have
LfuGet(c, key, initial) ==
    IF key \in DOMAIN c.nodeMap_
    THEN {[cache |-> after, hit |-> TRUE, value |-> c.nodeMap_[key].value] :
            after \in LfuGetInternal(c, key)}
    ELSE {[cache |-> c, hit |-> FALSE, value |-> initial]}

\* The sum of the frequencies of the entries of nodeMap_ with keys in keys.
RECURSIVE LfuFreqSum(_, _)
LfuFreqSum(c, keys) ==
    IF keys = {} THEN 0
    ELSE LET key == CHOOSE k \in keys : TRUE
         IN  c.nodeMap_[key].freq + LfuFreqSum(c, keys \ {key})

\* purge that clears the frequency lists only (a faulty variant the emptiness
\* after purge must reject)
LfuPurgeKeepsMap(c) == [c EXCEPT !.freqToFreqList_ = {}]

\* purge
LfuPurge(c) == [c EXCEPT !.nodeMap_ = EmptyMap, !.freqToFreqList_ = {}]

IdleLfu == LfuNew(0, 1)

(***************************************************************************)
(* The ghost list and ghost index shared in shape by ArcLruPart and        *)
(* ArcLfuPart.  ghostCache_ is the key set of the index; ghostList runs     *)
(* from ghostHead_ to ghostTail_ and a linked node is [key, mapped], mapped *)
(* telling whether ghostCache_[key] is this node.                          *)
(***************************************************************************)
\* removeFromGhost(it->second); ghostCache_.erase(it)
GhostRemoveMapped(p, key) ==
    [p EXCEPT !.ghostList = SelectSeq(@, LAMBDA n : ~(n.key = key /\ n.mapped)),
              !.ghostCache_ = @ \ {key}]

\* checkGhost
ArcCheckGhost(p, key) ==
    IF key \in p.ghostCache_
    THEN [part |-> GhostRemoveMapped(p, key), found |-> TRUE]
    ELSE [part |-> p, found |-> FALSE]

\* ghostCache_[key] = node for a node just linked: an older node of that key
\* is no longer the one the index holds.
GhostMapNew(p, key, list) ==
    [p EXCEPT !.ghostList = list, !.ghostCache_ = @ \cup {key}]

\* ghostCache_.erase(key) after a node of that key was unlinked
GhostErase(p, key, list) ==
    [p EXCEPT !.ghostList = Unmapped(list, key), !.ghostCache_ = @ \ {key}]

(***************************************************************************)
(* ArcLruPart.  mainList runs from mainHead_ (most recent) to mainTail_.   *)
(***************************************************************************)
ArcLruNew(capacity, transformThreshold) ==
    [capacity_ |-> capacity, ghostCapacity_ |-> capacity,
     transformThreshold_ |-> transformThreshold,
     mainCache_ |-> EmptyMap, mainList |-> <<>>,
     ghostCache_ |-> {}, ghostList |-> <<>>]

\* addToGhost: at ghostHead_
ArcLruAddToGhost(p, key) ==
    GhostMapNew(p, key, <<[key |-> key, mapped |-> TRUE]>> \o Unmapped(p.ghostList, key))

\* removeOldestGhost: the node before ghostTail_
ArcLruRemoveOldestGhost(p) ==
    IF p.ghostList = <<>> THEN p
    ELSE GhostErase(p, p.ghostList[Len(p.ghostList)].key,
                    SubSeq(p.ghostList, 1, Len(p.ghostList) - 1))

\* evictLeastRecent
ArcLruEvictLeastRecent(p) ==
    IF p.mainList = <<>> THEN p
    ELSE LET leastRecent == p.mainList[Len(p.mainList)]
             unlinked == [p EXCEPT !.mainList = SubSeq(@, 1, Len(@) - 1)]
             room == IF Cardinality(unlinked.ghostCache_) >= unlinked.ghostCapacity_
                     THEN ArcLruRemoveOldestGhost(unlinked) ELSE unlinked
         IN  [ArcLruAddToGhost(room, leastRecent)
                EXCEPT !.mainCache_ = MapErase(@, leastRecent)]

\* moveToFront
ArcLruMoveToFront(p, key) ==
    [p EXCEPT !.mainList = <<key>> \o SeqRemove(@, key)]

\* updateExistingNode
ArcLruUpdateExistingNode(p, key, value) ==
    ArcLruMoveToFront([p EXCEPT !.mainCache_[key].value = value], key)

\* addNewNode
ArcLruAddNewNode(p, key, value) ==
    LET room == IF Cardinality(DOMAIN p.mainCache_) >= p.capacity_
                THEN ArcLruEvictLeastRecent(p) ELSE p
    IN  [room EXCEPT !.mainCache_ = MapPut(@, key, [value |-> value, accessCount |-> 1]),
                     !.mainList = <<key>> \o @]

\* put
ArcLruPut(p, key, value) ==
    IF p.capacity_ = 0 THEN [part |-> p, ok |-> FALSE]
    ELSE IF key \in DOMAIN p.mainCache_
    THEN [part |-> ArcLruUpdateExistingNode(p, key, value), ok |-> TRUE]
    ELSE [part |-> ArcLruAddNewNode(p, key, value), ok |-> TRUE]

\* updateNodeAccess
ArcLruUpdateNodeAccess(p, key) ==
    [ArcLruMoveToFront(p, key) EXCEPT !.mainCache_[key].accessCount = @ + 1]

\* get
ArcLruGet(p, key, initial) ==
    IF key \in DOMAIN p.mainCache_
    THEN LET q == ArcLruUpdateNodeAccess(p, key)
         IN  [part |-> q, hit |-> TRUE, value |-> q.mainCache_[key].value,
              shouldTransform |-> q.mainCache_[key].accessCount >= q.transformThreshold_]
    ELSE [part |-> p, hit |-> FALSE, value |-> initial, shouldTransform |-> FALSE]

\* increaseCapacity
ArcLruIncreaseCapacity(p) == [p EXCEPT !.capacity_ = @ + 1]

\* decreaseCapacity
ArcLruDecreaseCapacity(p) ==
    IF p.capacity_ <= 0 THEN [part |-> p, ok |-> FALSE]
    ELSE LET q == IF Cardinality(DOMAIN p.mainCache_) = p.capacity_
                  THEN ArcLruEvictLeastRecent(p) ELSE p
         IN  [part |-> [q EXCEPT !.capacity_ = @ - 1], ok |-> TRUE]

(***************************************************************************)
(* ArcLfuPart.  freqMap_ holds the entries [freq, nodes] of the std::map,  *)
(* nodes being the keys of that frequency's list from front to back.       *)
(***************************************************************************)
ArcLfuNew(capacity, transformThreshold) ==
    [capacity_ |-> capacity, ghostCapacity_ |-> capacity,
     transformThreshold_ |-> transformThreshold, minFreq_ |-> 0,
     mainCache_ |-> EmptyMap, freqMap_ |-> {},
     ghostCache_ |-> {}, ghostList |-> <<>>]

\* freqMap_.find(freq) != end()
ArcLfuHasList(p, freq) == \E e \in p.freqMap_ : e.freq = freq

\* freqMap_[freq], which a read of a missing entry creates empty
ArcLfuList(p, freq) ==
    IF ArcLfuHasList(p, freq) THEN (CHOOSE e \in p.freqMap_ : e.freq = freq).nodes
    ELSE <<>>

\* p with freqMap_[freq] holding nodes
ArcLfuWithList(p, freq, nodes) ==
    [p EXCEPT !.freqMap_ = {e \in @ : e.freq # freq} \cup {[freq |-> freq, nodes |-> nodes]}]

\* freqMap_.erase(freq)
ArcLfuEraseList(p, freq) == [p EXCEPT !.freqMap_ = {e \in @ : e.freq # freq}]

\* addToGhost: before ghostTail_
ArcLfuAddToGhost(p, key) ==
    GhostMapNew(p, key, Append(Unmapped(p.ghostList, key), [key |-> key, mapped |-> TRUE]))

\* removeOldestGhost: the node after ghostHead_
ArcLfuRemoveOldestGhost(p) ==
    IF p.ghostList = <<>> THEN p
    ELSE GhostErase(p, Head(p.ghostList).key, Tail(p.ghostList))

\* updateNodeFrequency
ArcLfuUpdateNodeFrequency(p, key) ==
    LET oldFreq == p.mainCache_[key].accessCount
        newFreq == oldFreq + 1
        counted == [p EXCEPT !.mainCache_[key].accessCount = newFreq]
        oldList == SeqRemove(ArcLfuList(p, oldFreq), key)
        removed == IF oldList = <<>>
                   THEN [ArcLfuEraseList(counted, oldFreq) EXCEPT
                           !.minFreq_ = IF oldFreq = @ THEN newFreq ELSE @]
                   ELSE ArcLfuWithList(counted, oldFreq, oldList)
    IN  ArcLfuWithList(removed, newFreq, Append(ArcLfuList(removed, newFreq), key))

\* evictLeastFrequent
ArcLfuEvictLeastFrequent(p) ==
    IF p.freqMap_ = {} THEN p
    ELSE IF ArcLfuList(p, p.minFreq_) = <<>> THEN ArcLfuWithList(p, p.minFreq_, <<>>)
    ELSE LET minFreqList == ArcLfuList(p, p.minFreq_)
             leastNode == Head(minFreqList)
             popped == IF Tail(minFreqList) # <<>>
                       THEN ArcLfuWithList(p, p.minFreq_, Tail(minFreqList))
                       ELSE LET erased == ArcLfuEraseList(p, p.minFreq_)
                            IN  IF erased.freqMap_ = {} THEN erased
                                ELSE [erased EXCEPT !.minFreq_ =
                                        CHOOSE f \in {e.freq : e \in erased.freqMap_} :
                                          \A e \in erased.freqMap_ : f <= e.freq]
             room == IF Cardinality(popped.ghostCache_) >= popped.ghostCapacity_
                     THEN ArcLfuRemoveOldestGhost(popped) ELSE popped
         IN  [ArcLfuAddToGhost(room, leastNode) EXCEPT !.mainCache_ = MapErase(@, leastNode)]

\* updateExistingNode
ArcLfuUpdateExistingNode(p, key, value) ==
    ArcLfuUpdateNodeFrequency([p EXCEPT !.mainCache_[key].value = value], key)

\* addNewNode
ArcLfuAddNewNode(p, key, value) ==
    LET room == IF Cardinality(DOMAIN p.mainCache_) >= p.capacity_
                THEN ArcLfuEvictLeastFrequent(p) ELSE p
        mapped == [room EXCEPT !.mainCache_ =
                      MapPut(@, key, [value |-> value, accessCount |-> 1])]
    IN  [ArcLfuWithList(mapped, 1, Append(ArcLfuList(mapped, 1), key))
           EXCEPT !.minFreq_ = 1]

\* put
ArcLfuPut(p, key, value) ==
    IF p.capacity_ = 0 THEN [part |-> p, ok |-> FALSE]
    ELSE IF key \in DOMAIN p.mainCache_
    THEN [part |-> ArcLfuUpdateExistingNode(p, key, value), ok |-> TRUE]
    ELSE [part |-> ArcLfuAddNewNode(p, key, value), ok |-> TRUE]

\* get
ArcLfuGet(p, key, initial) ==
    IF key \in DOMAIN p.mainCache_
    THEN [part |-> ArcLfuUpdateNodeFrequency(p, key), hit |-> TRUE,
          value |-> p.mainCache_[key].value]
    ELSE [part |-> p, hit |-> FALSE, value |-> initial]

\* contain
ArcLfuContain(p, key) == key \in DOMAIN p.mainCache_

\* increaseCapacity
ArcLfuIncreaseCapacity(p) == [p EXCEPT !.capacity_ = @ + 1]

\* decreaseCapacity
ArcLfuDecreaseCapacity(p) ==
    IF p.capacity_ <= 0 THEN [part |-> p, ok |-> FALSE]
    ELSE LET q == IF Cardinality(DOMAIN p.mainCache_) = p.capacity_
                  THEN ArcLfuEvictLeastFrequent(p) ELSE p
         IN  [part |-> [q EXCEPT !.capacity_ = @ - 1], ok |-> TRUE]

(***************************************************************************)
(* KArcCache                                                               *)
(***************************************************************************)
ArcNew(capacity, transformThreshold) ==
    [capacity_ |-> capacity, transformThreshold_ |-> transformThreshold,
     lruPart_ |-> ArcLruNew(capacity, transformThreshold),
     lfuPart_ |-> ArcLfuNew(capacity, transformThreshold)]

\* checkGhostCaches that takes the ghost entry out but moves no capacity (a
\* faulty variant the adaptivity of the two capacities must reject)
ArcCheckGhostCachesNoShift(c, key) ==
    LET inLru == ArcCheckGhost(c.lruPart_, key)
    IN  IF inLru.found THEN [c EXCEPT !.lruPart_ = inLru.part]
        ELSE [c EXCEPT !.lfuPart_ = ArcCheckGhost(c.lfuPart_, key).part]

\* checkGhostCaches, were the receiving part grown whether or not the donor
\* could give a slot up
ArcCheckGhostCachesAlwaysGrow(c, key) ==
    LET inLru == ArcCheckGhost(c.lruPart_, key)
    IN  IF inLru.found
        THEN [c EXCEPT !.lfuPart_ = ArcLfuDecreaseCapacity(c.lfuPart_).part,
                       !.lruPart_ = ArcLruIncreaseCapacity(inLru.part)]
        ELSE LET inLfu == ArcCheckGhost(c.lfuPart_, key)
             IN  IF inLfu.found
                 THEN [c EXCEPT !.lruPart_ = ArcLruDecreaseCapacity(c.lruPart_).part,
                                !.lfuPart_ = ArcLfuIncreaseCapacity(inLfu.part)]
                 ELSE c

\* checkGhostCaches
ArcCheckGhostCaches(c, key) ==
    LET inLru == ArcCheckGhost(c.lruPart_, key)
    IN  IF inLru.found
        THEN LET less == ArcLfuDecreaseCapacity(c.lfuPart_)
             IN  [c EXCEPT !.lfuPart_ = less.part,
                           !.lruPart_ = IF less.ok THEN ArcLruIncreaseCapacity(inLru.part)
                                        ELSE inLru.part]
        ELSE LET inLfu == ArcCheckGhost(c.lfuPart_, key)
             IN  IF inLfu.found
                 THEN LET less == ArcLruDecreaseCapacity(c.lruPart_)
                      IN  [c EXCEPT !.lruPart_ = less.part,
                                    !.lfuPart_ = IF less.ok
                                                 THEN ArcLfuIncreaseCapacity(inLfu.part)
                                                 ELSE inLfu.part]
                 ELSE c

\* put, were the frequency part left alone when it already holds the key
ArcPutLruOnly(c, key, value) ==
    LET g == ArcCheckGhostCaches(c, key)
    IN  [g EXCEPT !.lruPart_ = ArcLruPut(g.lruPart_, key, value).part]

\* put
ArcPut(c, key, value) ==
    LET g == ArcCheckGhostCaches(c, key)
        inLfu == ArcLfuContain(g.lfuPart_, key)
        stored == [g EXCEPT !.lruPart_ = ArcLruPut(g.lruPart_, key, value).part]
    IN  IF inLfu
        THEN [stored EXCEPT !.lfuPart_ = ArcLfuPut(stored.lfuPart_, key, value).part]
        ELSE stored

\* bool get(Key, Value&)
ArcGet(c, key, initial) ==
    LET g == ArcCheckGhostCaches(c, key)
        r == ArcLruGet(g.lruPart_, key, initial)
        seen == [g EXCEPT !.lruPart_ = r.part]
    IN  IF r.hit
        THEN [cache |-> IF r.shouldTransform
                        THEN [seen EXCEPT !.lfuPart_ =
                                 ArcLfuPut(seen.lfuPart_, key, r.value).part]
                        ELSE seen,
              hit |-> TRUE, value |-> r.value]
        ELSE LET f == ArcLfuGet(seen.lfuPart_, key, r.value)
             IN  [cache |-> [seen EXCEPT !.lfuPart_ = f.part],
                  hit |-> f.hit, value |-> f.value]

\* The accessCount_ of key's node in a part's main index (0: none).
AccessCount(p, key) ==
    IF key \in DOMAIN p.mainCache_ THEN p.mainCache_[key].accessCount ELSE 0

IdleArc == ArcNew(0, TransformThreshold)

(***************************************************************************)
(* KHashLruCaches and KHashLfuCache: sliceNum_ slices, each a KLruCache or *)
(* a KLfuCache of capacity ceil(capacity / sliceNum_); slice i of the      *)
(* vector is element i + 1 of the sequence.                                *)
(***************************************************************************)
\* size_t sliceSize = std::ceil(capacity / static_cast<double>(sliceNum_))
SliceSize(capacity, sliceNum) == (capacity + sliceNum - 1) \div sliceNum

HashLruNew(capacity, sliceNum) ==
    [capacity_ |-> capacity, sliceNum_ |-> sliceNum,
     lruSliceCaches_ |-> [i \in 1..sliceNum |-> LruNew(SliceSize(capacity, sliceNum))]]

HashLfuNew(capacity, sliceNum, maxAverageNum) ==
    [capacity_ |-> capacity, sliceNum_ |-> sliceNum,
     lfuSliceCaches_ |-> [i \in 1..sliceNum |->
                            LfuNew(SliceSize(capacity, sliceNum), maxAverageNum)]]

\* std::hash<int> of a key that is not negative, as libstdc++ computes it
Hash(key) == key

\* size_t sliceIndex = Hash(key) % sliceNum_
SliceIndex(key, sliceNum) == (Hash(key) % sliceNum) + 1

\* The keys the slices hold.
HashLruHeld(h) == UNION {DOMAIN h.lruSliceCaches_[i].nodeMap_ : i \in 1..h.sliceNum_}

HashLfuHeld(h) == UNION {DOMAIN h.lfuSliceCaches_[i].nodeMap_ : i \in 1..h.sliceNum_}

(***************************************************************************)
(* The aging scenario on a KLfuCache: put(k1), ScenarioHits gets that hit   *)
(* k1, put(k2), one get that hits k2, put(k3), on three distinct keys.      *)
(*   phase 0 : no call yet          phase 1 : k1 put, hits counted          *)
(*   phase 2 : k2 put               phase 3 : k2 hit once                   *)
(*   phase 4 : k3 put                                                       *)
(* NoScenario: the calls made are not (or are not watched as) a prefix of   *)
(* the scenario.                                                            *)
(***************************************************************************)
\* No KArcCache call has looked into the ghost lists yet.
NoGhostHit == [list |-> "none", lru |-> 0, lfu |-> 0]

NoScenario == [phase |-> -1, k1 |-> DefaultKey, k2 |-> DefaultKey, hits |-> 0]

ScenarioStart == [NoScenario EXCEPT !.phase = 0]

ScenarioAfter(sc, op, key, hit) ==
    IF sc.phase = 0 /\ op = "put" THEN [sc EXCEPT !.phase = 1, !.k1 = key]
    ELSE IF /\ sc.phase = 1 /\ op = "get" /\ hit /\ key = sc.k1
            /\ sc.hits < ScenarioHits
    THEN [sc EXCEPT !.hits = @ + 1]
    ELSE IF /\ sc.phase = 1 /\ op = "put" /\ key # sc.k1
            /\ sc.hits = ScenarioHits
    THEN [sc EXCEPT !.phase = 2, !.k2 = key]
    ELSE IF sc.phase = 2 /\ op = "get" /\ hit /\ key = sc.k2
    THEN [sc EXCEPT !.phase = 3]
    ELSE IF sc.phase = 3 /\ op = "put" /\ key \notin {sc.k1, sc.k2}
    THEN [sc EXCEPT !.phase = 4]
    ELSE NoScenario

(***************************************************************************)
(* The record of the last public call.                                     *)
(*   full    : the call was a put of a key not in the main index while the *)
(*             main index was at capacity                                  *)
(*   evicted : the keys the call took out of the main index                *)
(***************************************************************************)
NoCall ==
    [op |-> "none", key |-> DefaultKey, hit |-> FALSE, ret |-> DefaultValue,
     full |-> FALSE, evicted |-> {}]

CallRec(op, key, hit, ret, full, evicted) ==
    [op |-> op, key |-> key, hit |-> hit, ret |-> ret, full |-> full,
     evicted |-> evicted]

NeverPut == [k \in LruKeys |-> DefaultValue]

(***************************************************************************)
(* Threads calling one instance.  A thread's record holds the call it is   *)
(* in (op, key, value), the statement it is about to execute (pc), what    *)
(* the call returned (hit, ret) and its local variables (local).           *)
(***************************************************************************)
Threads == 1..MaxThreads

IdleThread ==
    [pc |-> "idle", op |-> "none", key |-> DefaultKey, value |-> DefaultValue,
     hit |-> FALSE, ret |-> DefaultValue, local |-> DefaultValue]

NoThreads == [t \in Threads |-> IdleThread]

NotForked == <<>>

\* The keys of the calls threads make concurrently.
ConcKeys == {1, 2}

\* A thread that is about to enter a call.
Calling(op, key, value) ==
    [IdleThread EXCEPT !.pc = "start", !.op = op, !.key = key, !.value = value]

AllIdle == \A t \in Threads : threads[t].pc = "idle"

AllDone == \A t \in Threads : threads[t].pc = "done"

\* The sequential state the threaded actions leave alone.
seq == <<policy, call, lastPut, recency, observed, scenario, dropped, sliced>>

\* std::lock_guard<std::mutex> that lets a thread in while another holds
\* the mutex (a faulty variant mutual exclusion must reject)
MutexNeverBlocks(m) == TRUE

\* std::mutex::lock returns only once no thread holds the mutex.
MutexFree(m) == m = 0

\* std::lock_guard<std::mutex> lock(mutex_)
Lock(t) ==
    /\ threads[t].pc = "lock"
    /\ MutexFree(mutex_)
    /\ mutex_' = t
    /\ threads' = [threads EXCEPT ![t].pc = "find"]
    /\ UNCHANGED <<seq, lru, lruk, lfu, arc, forked>>

\* ~lock_guard at the return
Unlock(t) ==
    /\ threads[t].pc = "unlock"
    /\ mutex_' = 0
    /\ threads' = [threads EXCEPT ![t].pc = "done"]
    /\ UNCHANGED <<seq, lru, lruk, lfu, arc, forked>>

\* The threads have returned and are joined.
Join ==
    /\ AllDone
    /\ threads' = NoThreads
    /\ forked' = NotForked
    /\ UNCHANGED <<seq, lru, lruk, lfu, arc, mutex_>>

\* The instance the threads share.
Instance ==
    CASE policy = "lru" -> lru [] policy = "lruk" -> lruk
      [] policy = "lfu" -> lfu [] policy = "arc" -> arc

\* The calls a thread may make on it: put and get of every class, remove of
\* KLruCache, purge of KLfuCache.
Calls ==
    UNION {{Calling("put", key, value) : value \in ValsOf(key)} : key \in ConcKeys}
        \cup {Calling("get", key, DefaultValue) : key \in ConcKeys}
        \cup (IF policy = "lru"
              THEN {Calling("remove", key, DefaultValue) : key \in ConcKeys} ELSE {})
        \cup (IF policy = "lfu" THEN {Calling("purge", DefaultKey, DefaultValue)} ELSE {})

\* Every thread enters one call; the calls all start together, so they all
\* overlap in real time.
Fork ==
    /\ AllIdle
    /\ threads' \in [Threads -> Calls]
    /\ forked' = Instance
    /\ UNCHANGED <<seq, lru, lruk, lfu, arc, mutex_>>

\* What one call, made alone, does to the instance c and returns.
CallAlone(c, th) ==
    CASE policy = "lru" ->
           IF th.op = "put"
           THEN [cache |-> LruPut(c, th.key, th.value), hit |-> FALSE,
                 value |-> DefaultValue]
           ELSE IF th.op = "get" THEN LruGet(c, th.key, DefaultValue)
           ELSE [cache |-> LruRemove(c, th.key), hit |-> FALSE, value |-> DefaultValue]
      [] policy = "lruk" ->
           IF th.op = "put"
           THEN [cache |-> LruKPut(c, th.key, th.value), hit |-> FALSE,
                 value |-> DefaultValue]
           ELSE LruKGet(c, th.key)
      [] policy = "arc" ->
           IF th.op = "put"
           THEN [cache |-> ArcPut(c, th.key, th.value), hit |-> FALSE,
                 value |-> DefaultValue]
           ELSE ArcGet(c, th.key, DefaultValue)

\* The outcomes of making the calls of the threads in todo one after another
\* on c, in every order.
RECURSIVE SerialRuns(_, _, _)
SerialRuns(c, todo, results) ==
    IF todo = {} THEN {[cache |-> c, results |-> results]}
    ELSE UNION {LET r == CallAlone(c, threads[t])
                IN  SerialRuns(r.cache, todo \ {t},
                               [results EXCEPT ![t] = [hit |-> r.hit, ret |-> r.value]]) :
                  t \in todo}

\* What the threads' calls returned.
Returned == [t \in Threads |-> [hit |-> threads[t].hit, ret |-> threads[t].ret]]

(***************************************************************************)
(* KLruCache as the constructed policy.                                    *)
(***************************************************************************)
InitLru ==
    /\ policy = "lru"
    /\ lru \in {LruNew(c) : c \in 0..MaxCapacity}
    /\ call = NoCall
    /\ lastPut = NeverPut
    /\ recency = <<>>
    /\ lruk = IdleLruK
    /\ lfu = IdleLfu
    /\ arc = IdleArc
    /\ observed = NeverSeen
    /\ scenario = NoScenario
    /\ threads = NoThreads
    /\ mutex_ = 0
    /\ forked = NotForked
    /\ purged = FALSE
    /\ removedKeys = {}
    /\ ghostHit = NoGhostHit
    /\ hashLru = HashLruNew(0, 1)
    /\ hashLfu = HashLfuNew(0, 1, 1)

LruPutCall(key, value) ==
    /\ policy = "lru"
    /\ lru' = LruPut(lru, key, value)
    /\ call' = CallRec("put", key, FALSE, DefaultValue,
                       /\ key \notin DOMAIN lru.nodeMap_
                       /\ lru.capacity_ > 0
                       /\ Cardinality(DOMAIN lru.nodeMap_) >= lru.capacity_,
                       (DOMAIN lru.nodeMap_) \ (DOMAIN lru'.nodeMap_))
    /\ lastPut' = [lastPut EXCEPT ![key] = value]
    /\ recency' = Live(Touch(recency, key), DOMAIN lru'.nodeMap_)
    /\ removedKeys' = removedKeys \ {key}
    /\ UNCHANGED <<policy, lruk, lfu, arc, observed, scenario, conc, purged, ghostHit, sliced>>

LruGetCall(key) ==
    /\ policy = "lru"
    /\ LET r == LruGet(lru, key, DefaultValue)
       IN  /\ lru' = r.cache
           /\ call' = CallRec("get", key, r.hit, r.value, FALSE,
                              (DOMAIN lru.nodeMap_) \ (DOMAIN r.cache.nodeMap_))
           /\ recency' = IF r.hit THEN Touch(recency, key) ELSE recency
    /\ UNCHANGED <<policy, lastPut, lruk, lfu, arc, observed, scenario, conc, dropped, sliced>>

LruRemoveCall(key) ==
    /\ policy = "lru"
    /\ lru' = LruRemove(lru, key)
    /\ call' = CallRec("remove", key, FALSE, DefaultValue, FALSE,
                       (DOMAIN lru.nodeMap_) \ (DOMAIN lru'.nodeMap_))
    /\ recency' = Live(recency, DOMAIN lru'.nodeMap_)
    /\ removedKeys' = removedKeys \cup {key}
    /\ UNCHANGED <<policy, lastPut, lruk, lfu, arc, observed, scenario, conc, purged, ghostHit, sliced>>

NextLru ==
    \/ \E key \in LruKeys : \E value \in ValsOf(key) : LruPutCall(key, value)
    \/ \E key \in LruKeys : LruGetCall(key)
    \/ \E key \in LruKeys : LruRemoveCall(key)

(***************************************************************************)
(* One KLruCache called by several threads at once.                        *)
(***************************************************************************)
InitLruConc ==
    /\ InitLru
    /\ lru.capacity_ <= MaxConcCapacity

\* put line 64: capacity_ is read before the lock is taken; get and remove
\* begin with the lock.
LruStart(t) ==
    /\ policy = "lru" /\ threads[t].pc = "start"
    /\ threads' = [threads EXCEPT ![t].pc =
                      IF threads[t].op = "put" /\ lru.capacity_ <= 0
                      THEN "done" ELSE "lock"]
    /\ UNCHANGED <<seq, lru, lruk, lfu, arc, mutex_, forked>>

\* auto it = nodeMap_.find(key)
LruFind(t) ==
    /\ policy = "lru" /\ threads[t].pc = "find"
    /\ threads' = [threads EXCEPT ![t].pc = "apply",
                                  ![t].local = IF threads[t].key \in DOMAIN lru.nodeMap_
                                               THEN 1 ELSE 0]
    /\ UNCHANGED <<seq, lru, lruk, lfu, arc, mutex_, forked>>

\* The branch taken on it != nodeMap_.end(): updateExistingNode or addNewNode
\* in put, moveToMostRecent and the read of the value in get, removeNode and
\* the erase in remove.
LruApply(t) ==
    /\ policy = "lru" /\ threads[t].pc = "apply"
    /\ LET th == threads[t]
           found == th.local = 1
       IN  /\ lru' = IF th.op = "put"
                     THEN IF found THEN LruUpdateExistingNode(lru, th.key, th.value)
                          ELSE LruAddNewNode(lru, th.key, th.value)
                     ELSE IF ~found THEN lru
                     ELSE IF th.op = "get" THEN LruMoveToMostRecent(lru, th.key)
                     ELSE [LruRemoveNode(lru, th.key)
                             EXCEPT !.nodeMap_ = MapErase(lru.nodeMap_, th.key)]
           /\ threads' = [threads EXCEPT
                 ![t].pc = "unlock",
                 ![t].hit = th.op = "get" /\ found,
                 ![t].ret = IF th.op = "get" /\ found /\ th.key \in DOMAIN lru.nodeMap_
                            THEN lru.nodeMap_[th.key] ELSE DefaultValue]
    /\ UNCHANGED <<seq, lruk, lfu, arc, mutex_, forked>>

NextLruConc ==
    \/ Fork
    \/ \E t \in Threads : LruStart(t)
    \/ \E t \in Threads : Lock(t)
    \/ \E t \in Threads : LruFind(t)
    \/ \E t \in Threads : LruApply(t)
    \/ \E t \in Threads : Unlock(t)
    \/ Join

(***************************************************************************)
(* KLruKCache as the constructed policy.                                   *)
(***************************************************************************)
InitLruK ==
    /\ policy = "lruk"
    /\ lruk \in {LruKNew(c, h, k) :
                   c \in 0..MaxLruKCapacity, h \in 0..MaxHistoryCapacity,
                   k \in 1..MaxK}
    /\ lru = IdleLru
    /\ lfu = IdleLfu
    /\ arc = IdleArc
    /\ call = NoCall
    /\ lastPut = NeverPut
    /\ recency = <<>>
    /\ observed = NeverSeen
    /\ scenario = NoScenario
    /\ threads = NoThreads
    /\ mutex_ = 0
    /\ forked = NotForked
    /\ purged = FALSE
    /\ removedKeys = {}
    /\ ghostHit = NoGhostHit
    /\ hashLru = HashLruNew(0, 1)
    /\ hashLfu = HashLfuNew(0, 1, 1)

LruKPutCall(key, value) ==
    /\ policy = "lruk"
    /\ LruKHistoryCount(lruk, key) < MaxHistoryCount
    /\ lruk' = LruKPut(lruk, key, value)
    /\ call' = CallRec("put", key, FALSE, DefaultValue,
                       /\ key \notin DOMAIN lruk.main.nodeMap_
                       /\ key \in DOMAIN lruk'.main.nodeMap_
                       /\ Cardinality(DOMAIN lruk.main.nodeMap_) >= lruk.main.capacity_,
                       (DOMAIN lruk.main.nodeMap_) \ (DOMAIN lruk'.main.nodeMap_))
    /\ lastPut' = [lastPut EXCEPT ![key] = value]
    /\ observed' = Seen(observed, key)
    /\ UNCHANGED <<policy, lru, lfu, arc, recency, scenario, conc, dropped, sliced>>

LruKGetCall(key) ==
    /\ policy = "lruk"
    /\ LruKHistoryCount(lruk, key) < MaxHistoryCount
    /\ LET r == LruKGet(lruk, key)
       IN  /\ lruk' = r.cache
           /\ call' = CallRec("get", key, r.hit, r.value,
                              /\ key \notin DOMAIN lruk.main.nodeMap_
                              /\ key \in DOMAIN r.cache.main.nodeMap_
                              /\ Cardinality(DOMAIN lruk.main.nodeMap_)
                                    >= lruk.main.capacity_,
                              (DOMAIN lruk.main.nodeMap_) \ (DOMAIN r.cache.main.nodeMap_))
    /\ observed' = Seen(observed, key)
    /\ UNCHANGED <<policy, lru, lfu, arc, lastPut, recency, scenario, conc, dropped, sliced>>

\* bool get(Key, Value&), which KLruKCache inherits from KLruCache unchanged:
\* it reads the admitted cache only and counts nothing.
LruKBaseGetCall(key) ==
    /\ policy = "lruk"
    /\ LET r == LruGet(lruk.main, key, DefaultValue)
       IN  /\ lruk' = [lruk EXCEPT !.main = r.cache]
           /\ call' = CallRec("baseGet", key, r.hit, r.value, FALSE, {})
    /\ UNCHANGED <<policy, lru, lfu, arc, lastPut, recency, observed, scenario, conc, dropped, sliced>>

\* remove(Key), inherited from KLruCache as well
LruKRemoveCall(key) ==
    /\ policy = "lruk"
    /\ lruk' = [lruk EXCEPT !.main = LruRemove(lruk.main, key)]
    /\ call' = CallRec("remove", key, FALSE, DefaultValue, FALSE,
                       (DOMAIN lruk.main.nodeMap_) \ (DOMAIN lruk'.main.nodeMap_))
    /\ UNCHANGED <<policy, lru, lfu, arc, lastPut, recency, observed, scenario, conc, dropped, sliced>>

NextLruK ==
    \/ \E key \in LruKKeys, value \in Vals : LruKPutCall(key, value)
    \/ \E key \in LruKKeys : LruKGetCall(key)
    \/ \E key \in LruKKeys : LruKBaseGetCall(key)
    \/ \E key \in LruKKeys : LruKRemoveCall(key)

(***************************************************************************)
(* KLfuCache as the constructed policy.  bound caps curTotalNum_.          *)
(***************************************************************************)
InitLfu ==
    /\ policy = "lfu"
    /\ lfu \in {LfuNew(c, m) : c \in 0..MaxLfuCapacity, m \in LfuMaxAverages}
    /\ lru = IdleLru
    /\ lruk = IdleLruK
    /\ arc = IdleArc
    /\ call = NoCall
    /\ lastPut = NeverPut
    /\ recency = <<>>
    /\ observed = NeverSeen
    /\ scenario = NoScenario
    /\ threads = NoThreads
    /\ mutex_ = 0
    /\ forked = NotForked
    /\ purged = FALSE
    /\ removedKeys = {}
    /\ ghostHit = NoGhostHit
    /\ hashLru = HashLruNew(0, 1)
    /\ hashLfu = HashLfuNew(0, 1, 1)

LfuPutCall(key, value, bound) ==
    /\ policy = "lfu"
    /\ ~lfu.fault
    /\ lfu.curTotalNum_ < bound
    /\ lfu' \in LfuPut(lfu, key, value)
    /\ call' = CallRec("put", key, FALSE, DefaultValue,
                       /\ key \notin DOMAIN lfu.nodeMap_
                       /\ lfu.capacity_ # 0
                       /\ Cardinality(DOMAIN lfu.nodeMap_) = lfu.capacity_,
                       (DOMAIN lfu.nodeMap_) \ (DOMAIN lfu'.nodeMap_))
    /\ lastPut' = [lastPut EXCEPT ![key] = value]
    /\ scenario' = ScenarioAfter(scenario, "put", key, FALSE)
    /\ purged' = FALSE
    /\ UNCHANGED <<policy, lru, lruk, arc, recency, observed, conc, removedKeys, ghostHit, sliced>>

LfuGetCall(key, bound) ==
    /\ policy = "lfu"
    /\ ~lfu.fault
    /\ lfu.curTotalNum_ < bound
    /\ \E r \in LfuGet(lfu, key, DefaultValue) :
          /\ lfu' = r.cache
          /\ call' = CallRec("get", key, r.hit, r.value, FALSE,
                             (DOMAIN lfu.nodeMap_) \ (DOMAIN r.cache.nodeMap_))
          /\ scenario' = ScenarioAfter(scenario, "get", key, r.hit)
    /\ UNCHANGED <<policy, lru, lruk, arc, lastPut, recency, observed, conc, dropped, sliced>>

LfuPurgeCall ==
    /\ policy = "lfu"
    /\ ~lfu.fault
    /\ lfu' = LfuPurge(lfu)
    /\ call' = CallRec("purge", DefaultKey, FALSE, DefaultValue, FALSE,
                       DOMAIN lfu.nodeMap_)
    /\ scenario' = NoScenario
    /\ purged' = TRUE
    /\ UNCHANGED <<policy, lru, lruk, arc, lastPut, recency, observed, conc, removedKeys, ghostHit, sliced>>

NextLfu ==
    \/ \E key \in Keys, value \in Vals : LfuPutCall(key, value, MaxTotal)
    \/ \E key \in Keys : LfuGetCall(key, MaxTotal)
    \/ LfuPurgeCall

(***************************************************************************)
(* One KLruKCache called by several threads at once.  KLruKCache::get and  *)
(* put hold no lock of their own: each is a sequence of calls on the base  *)
(* KLruCache and on historyList_, which lock one at a time, and of         *)
(* accesses to historyValueMap_, which nothing guards.  A step is one such *)
(* call or access.                                                         *)
(***************************************************************************)
InitLruKConc == InitLruK

\* bool inMainCache = KLruCache<Key, Value>::get(key, value)
LruKMainGet(t) ==
    /\ policy = "lruk" /\ threads[t].pc = "start"
    /\ LET m == LruGet(lruk.main, threads[t].key, DefaultValue)
       IN  /\ lruk' = [lruk EXCEPT !.main = m.cache]
           /\ threads' = [threads EXCEPT
                 ![t].hit = m.hit, ![t].ret = m.value,
                 ![t].pc = IF threads[t].op = "put" /\ m.hit THEN "mainPut"
                           ELSE "histGet"]
    /\ UNCHANGED <<seq, lru, lfu, arc, mutex_, forked>>

\* size_t historyCount = historyList_->get(key); historyCount++;
\* historyList_->put(key, historyCount)
LruKHistoryStep(t) ==
    /\ policy = "lruk" /\ threads[t].pc \in {"histGet", "histPut"}
    /\ LET th == threads[t]
       IN  IF th.pc = "histGet"
           THEN LET h == LruGetValue(lruk.historyList_, th.key)
                IN  /\ lruk' = [lruk EXCEPT !.historyList_ = h.cache]
                    /\ threads' = [threads EXCEPT ![t].local = h.value + 1,
                                                  ![t].pc = "histPut"]
           ELSE /\ lruk' = [lruk EXCEPT
                               !.historyList_ = LruPut(@, th.key, th.local)]
                /\ threads' = [threads EXCEPT ![t].pc =
                       IF th.op = "put" THEN "saveValue"
                       ELSE IF ~th.hit /\ th.local >= lruk.k_ THEN "findValue"
                       ELSE "done"]
    /\ UNCHANGED <<seq, lru, lfu, arc, mutex_, forked>>

\* put: historyValueMap_[key] = value, then the test of historyCount >= k_.
\* get: auto it = historyValueMap_.find(key); Value storedValue = it->second.
LruKValueStep(t) ==
    /\ policy = "lruk" /\ threads[t].pc \in {"saveValue", "findValue"}
    /\ LET th == threads[t]
       IN  IF th.pc = "saveValue"
           THEN /\ lruk' = [lruk EXCEPT !.historyValueMap_ = MapPut(@, th.key, th.value)]
                /\ threads' = [threads EXCEPT ![t].pc =
                       IF th.local >= lruk.k_ THEN "histRemove" ELSE "done"]
           ELSE /\ lruk' = lruk
                /\ threads' = IF th.key \in DOMAIN lruk.historyValueMap_
                              THEN [threads EXCEPT
                                      ![t].hit = TRUE,
                                      ![t].ret = lruk.historyValueMap_[th.key],
                                      ![t].pc = "histRemove"]
                              ELSE [threads EXCEPT ![t].pc = "done"]
    /\ UNCHANGED <<seq, lru, lfu, arc, mutex_, forked>>

\* historyList_->remove(key); historyValueMap_.erase(...); then
\* KLruCache<Key, Value>::put(key, value), which is also the whole of put's
\* branch for a key found in the main cache.  get erases through the
\* iterator of its find: when another thread erased the key since, the
\* iterator is invalid and the call has no defined outcome.
LruKAdmitStep(t) ==
    /\ policy = "lruk" /\ threads[t].pc \in {"histRemove", "eraseValue", "mainPut"}
    /\ LET th == threads[t]
       IN  CASE th.pc = "histRemove" ->
                 /\ lruk' = [lruk EXCEPT !.historyList_ = LruRemove(@, th.key)]
                 /\ threads' = [threads EXCEPT ![t].pc = "eraseValue"]
             [] th.pc = "eraseValue" ->
                 /\ lruk' = [lruk EXCEPT !.historyValueMap_ = MapErase(@, th.key)]
                 /\ threads' = [threads EXCEPT ![t].pc =
                        IF th.op = "get" /\ th.key \notin DOMAIN lruk.historyValueMap_
                        THEN "undefined" ELSE "mainPut"]
             [] th.pc = "mainPut" ->
                 /\ lruk' = [lruk EXCEPT !.main =
                               LruPut(@, th.key,
                                      IF th.op = "put" THEN th.value ELSE th.ret)]
                 /\ threads' = [threads EXCEPT ![t].pc = "done"]
    /\ UNCHANGED <<seq, lru, lfu, arc, mutex_, forked>>

NextLruKConc ==
    \/ Fork /\ \A key \in ConcKeys : LruKHistoryCount(lruk, key) < MaxHistoryCount
    \/ \E t \in Threads : LruKMainGet(t)
    \/ \E t \in Threads : LruKHistoryStep(t)
    \/ \E t \in Threads : LruKValueStep(t)
    \/ \E t \in Threads : LruKAdmitStep(t)
    \/ Join

(***************************************************************************)
(* One KLfuCache called by several threads at once.  put and get hold the  *)
(* mutex from their first statement to their return; purge takes no lock.  *)
(***************************************************************************)
InitLfuConc ==
    /\ InitLfu
    /\ lfu.capacity_ <= MaxConcCapacity

\* put line 102: capacity_ is read before the lock is taken; get begins with
\* the lock; purge begins with nodeMap_.clear().
LfuStart(t) ==
    /\ policy = "lfu" /\ threads[t].pc = "start"
    /\ threads' = [threads EXCEPT ![t].pc =
                      IF threads[t].op = "purge" THEN "clearMap"
                      ELSE IF threads[t].op = "put" /\ lfu.capacity_ = 0 THEN "done"
                      ELSE "lock"]
    /\ UNCHANGED <<seq, lru, lruk, lfu, arc, mutex_, forked>>

\* auto it = nodeMap_.find(key)
LfuFind(t) ==
    /\ policy = "lfu" /\ threads[t].pc = "find"
    /\ threads' = [threads EXCEPT ![t].pc = "apply",
                                  ![t].local = IF threads[t].key \in DOMAIN lfu.nodeMap_
                                               THEN 1 ELSE 0]
    /\ UNCHANGED <<seq, lru, lruk, lfu, arc, mutex_, forked>>

\* The branch taken on it != nodeMap_.end(): getInternal on the node found,
\* or putInternal in put.  An iterator into a map that was cleared since the
\* find is invalid, and its use is recorded as fault.
LfuApply(t) ==
    /\ policy = "lfu" /\ threads[t].pc = "apply"
    /\ LET th == threads[t]
           found == th.local = 1
           valid == th.key \in DOMAIN lfu.nodeMap_
       IN  /\ lfu' \in IF found /\ ~valid THEN {[lfu EXCEPT !.fault = TRUE]}
                       ELSE IF found /\ th.op = "put"
                       THEN LfuGetInternal([lfu EXCEPT !.nodeMap_[th.key].value = th.value],
                                           th.key)
                       ELSE IF found THEN LfuGetInternal(lfu, th.key)
                       ELSE IF th.op = "put" THEN LfuPutInternal(lfu, th.key, th.value)
                       ELSE {lfu}
           /\ threads' = [threads EXCEPT
                 ![t].pc = "unlock",
                 ![t].hit = th.op = "get" /\ found,
                 ![t].ret = IF th.op = "get" /\ found /\ valid
                            THEN lfu.nodeMap_[th.key].value ELSE DefaultValue]
    /\ UNCHANGED <<seq, lru, lruk, arc, mutex_, forked>>

\* purge, statement by statement: nodeMap_.clear() leaves every node linked
\* in its FreqList, freqToFreqList_.clear() then drops the lists.
PurgeStep(t) ==
    /\ policy = "lfu" /\ threads[t].pc \in {"clearMap", "clearFreq"}
    /\ IF threads[t].pc = "clearMap"
       THEN /\ lfu' = [lfu EXCEPT
                         !.nodeMap_ = EmptyMap,
                         !.freqToFreqList_ =
                            {[freq |-> e.freq,
                              nodes |-> [i \in 1..Len(e.nodes) |->
                                           [e.nodes[i] EXCEPT !.mapped = FALSE]]] : e \in @}]
            /\ threads' = [threads EXCEPT ![t].pc = "clearFreq"]
       ELSE /\ lfu' = [lfu EXCEPT !.freqToFreqList_ = {}]
            /\ threads' = [threads EXCEPT ![t].pc = "done"]
    /\ UNCHANGED <<seq, lru, lruk, arc, mutex_, forked>>

NextLfuConc ==
    \/ Fork /\ ~lfu.fault /\ lfu.curTotalNum_ < MaxTotal
    \/ \E t \in Threads : LfuStart(t)
    \/ \E t \in Threads : Lock(t)
    \/ \E t \in Threads : LfuFind(t)
    \/ \E t \in Threads : LfuApply(t)
    \/ \E t \in Threads : Unlock(t)
    \/ \E t \in Threads : PurgeStep(t)
    \/ Join

\* nodeMap_ and freqToFreqList_ hold the same nodes: the node of every key
\* of nodeMap_ is linked in the list of its frequency, and every linked node
\* is the one nodeMap_ holds for its key.
LfuIndicesAgree(c) ==
    /\ \A key \in DOMAIN c.nodeMap_ :
          /\ HasFreqList(c, c.nodeMap_[key].freq)
          /\ \E i \in 1..Len(FreqListNodes(c, c.nodeMap_[key].freq)) :
                FreqListNodes(c, c.nodeMap_[key].freq)[i] = [key |-> key, mapped |-> TRUE]
    /\ \A e \in c.freqToFreqList_ : \A i \in 1..Len(e.nodes) :
          e.nodes[i].mapped /\ e.nodes[i].key \in DOMAIN c.nodeMap_

\* One KLfuCache of capacity 1 whose aging pass lowers no frequency
\* (maxAverageNum / 2 = 0), so that a key can be hit up to INT8_MAX times.
InitLfuHot ==
    /\ policy = "lfu"
    /\ lfu = LfuNew(1, 1)
    /\ lru = IdleLru
    /\ lruk = IdleLruK
    /\ arc = IdleArc
    /\ call = NoCall
    /\ lastPut = NeverPut
    /\ recency = <<>>
    /\ observed = NeverSeen
    /\ scenario = NoScenario
    /\ threads = NoThreads
    /\ mutex_ = 0
    /\ forked = NotForked
    /\ purged = FALSE
    /\ removedKeys = {}
    /\ ghostHit = NoGhostHit
    /\ hashLru = HashLruNew(0, 1)
    /\ hashLfu = HashLfuNew(0, 1, 1)

NextLfuHot ==
    \/ \E key \in HotKeys, value \in HotVals : LfuPutCall(key, value, MaxTotalHot)
    \/ \E key \in HotKeys : LfuGetCall(key, MaxTotalHot)

\* One KLfuCache of capacity 2 and maxAverageNum 4, the calls on which are
\* watched for the aging scenario.
InitLfuAging ==
    /\ policy = "lfu"
    /\ lfu = LfuNew(2, 4)
    /\ lru = IdleLru
    /\ lruk = IdleLruK
    /\ arc = IdleArc
    /\ call = NoCall
    /\ lastPut = NeverPut
    /\ recency = <<>>
    /\ observed = NeverSeen
    /\ scenario = ScenarioStart
    /\ threads = NoThreads
    /\ mutex_ = 0
    /\ forked = NotForked
    /\ purged = FALSE
    /\ removedKeys = {}
    /\ ghostHit = NoGhostHit
    /\ hashLru = HashLruNew(0, 1)
    /\ hashLfu = HashLfuNew(0, 1, 1)

NextLfuAging ==
    \/ \E key \in Keys, value \in HotVals : LfuPutCall(key, value, MaxTotalAging)
    \/ \E key \in Keys : LfuGetCall(key, MaxTotalAging)

(***************************************************************************)
(* KArcCache as the constructed policy.                                    *)
(***************************************************************************)
InitArc ==
    /\ policy = "arc"
    /\ arc \in {ArcNew(c, TransformThreshold) : c \in 0..MaxArcCapacity}
    /\ lru = IdleLru
    /\ lruk = IdleLruK
    /\ lfu = IdleLfu
    /\ call = NoCall
    /\ lastPut = NeverPut
    /\ recency = <<>>
    /\ observed = NeverSeen
    /\ scenario = NoScenario
    /\ threads = NoThreads
    /\ mutex_ = 0
    /\ forked = NotForked
    /\ purged = FALSE
    /\ removedKeys = {}
    /\ ghostHit = NoGhostHit
    /\ hashLru = HashLruNew(0, 1)
    /\ hashLfu = HashLfuNew(0, 1, 1)

\* Which ghost list checkGhostCaches finds the key in (the recency ghost list
\* is looked at first), with the capacities of both parts before the call.
ArcGhostHit(c, key) ==
    [list |-> IF key \in c.lruPart_.ghostCache_ THEN "lru"
              ELSE IF key \in c.lfuPart_.ghostCache_ THEN "lfu" ELSE "none",
     lru |-> c.lruPart_.capacity_,
     lfu |-> c.lfuPart_.capacity_]

ArcCallAllowed(key, maxAccess, maxGhost) ==
    /\ AccessCount(arc.lruPart_, key) < maxAccess
    /\ AccessCount(arc.lfuPart_, key) < maxAccess
    /\ Len(arc.lruPart_.ghostList) < maxGhost
    /\ Len(arc.lfuPart_.ghostList) < maxGhost

ArcPutCall(key, value, maxAccess, maxGhost) ==
    /\ policy = "arc"
    /\ ArcCallAllowed(key, maxAccess, maxGhost)
    /\ arc' = ArcPut(arc, key, value)
    /\ LET g == ArcCheckGhostCaches(arc, key).lruPart_
       IN  call' = CallRec("put", key, FALSE, DefaultValue,
                           /\ key \notin DOMAIN g.mainCache_
                           /\ g.capacity_ # 0
                           /\ Cardinality(DOMAIN g.mainCache_) >= g.capacity_,
                           (DOMAIN g.mainCache_) \ (DOMAIN arc'.lruPart_.mainCache_))
    /\ lastPut' = [lastPut EXCEPT ![key] = value]
    /\ recency' = Live(Touch(recency, key), DOMAIN arc'.lruPart_.mainCache_)
    /\ ghostHit' = ArcGhostHit(arc, key)
    /\ UNCHANGED <<policy, lru, lruk, lfu, observed, scenario, conc, gone, sliced>>

ArcGetCall(key, maxAccess, maxGhost) ==
    /\ policy = "arc"
    /\ ArcCallAllowed(key, maxAccess, maxGhost)
    /\ LET r == ArcGet(arc, key, DefaultValue)
           g == ArcCheckGhostCaches(arc, key).lruPart_
       IN  /\ arc' = r.cache
           /\ call' = CallRec("get", key, r.hit, r.value, FALSE,
                              (DOMAIN g.mainCache_) \ (DOMAIN r.cache.lruPart_.mainCache_))
           /\ recency' = Live(IF key \in DOMAIN g.mainCache_ THEN Touch(recency, key)
                              ELSE recency,
                              DOMAIN r.cache.lruPart_.mainCache_)
    /\ ghostHit' = ArcGhostHit(arc, key)
    /\ UNCHANGED <<policy, lru, lruk, lfu, lastPut, observed, scenario, conc, gone, sliced>>

NextArc ==
    \/ \E key \in Keys : \E value \in ValsOf(key) :
          ArcPutCall(key, value, MaxAccessCount, MaxGhostLen)
    \/ \E key \in Keys : ArcGetCall(key, MaxAccessCount, MaxGhostLen)

(***************************************************************************)
(* One KArcCache called by several threads at once.  KArcCache has no      *)
(* mutex of its own: a call is a sequence of calls on the two parts, of    *)
(* which put and get lock the part's mutex and checkGhost, contain,        *)
(* increaseCapacity and decreaseCapacity lock nothing.  A step here is one *)
(* whole call on a part, so the interleavings explored are those in which  *)
(* no two calls on a part overlap.                                         *)
(***************************************************************************)
InitArcConc ==
    /\ InitArc
    /\ arc.capacity_ <= MaxConcCapacity

\* The statement after checkGhostCaches(key) in put and in get.
ArcBody(th) == IF th.op = "put" THEN "contain" ELSE "lruGet"

\* checkGhostCaches, statement by statement
ArcGhostStep(t) ==
    /\ policy = "arc"
    /\ LET th == threads[t]
           inLru == ArcCheckGhost(arc.lruPart_, th.key)
           inLfu == ArcCheckGhost(arc.lfuPart_, th.key)
           lessLfu == ArcLfuDecreaseCapacity(arc.lfuPart_)
           lessLru == ArcLruDecreaseCapacity(arc.lruPart_)
       IN  CASE th.pc = "start" ->
                  /\ arc' = [arc EXCEPT !.lruPart_ = inLru.part]
                  /\ threads' = [threads EXCEPT ![t].pc =
                                    IF inLru.found THEN "lfuDecrease" ELSE "lfuGhost"]
             [] th.pc = "lfuDecrease" ->
                  /\ arc' = [arc EXCEPT !.lfuPart_ = lessLfu.part]
                  /\ threads' = [threads EXCEPT ![t].pc =
                                    IF lessLfu.ok THEN "lruIncrease" ELSE ArcBody(th)]
             [] th.pc = "lruIncrease" ->
                  /\ arc' = [arc EXCEPT !.lruPart_ = ArcLruIncreaseCapacity(@)]
                  /\ threads' = [threads EXCEPT ![t].pc = ArcBody(th)]
             [] th.pc = "lfuGhost" ->
                  /\ arc' = [arc EXCEPT !.lfuPart_ = inLfu.part]
                  /\ threads' = [threads EXCEPT ![t].pc =
                                    IF inLfu.found THEN "lruDecrease" ELSE ArcBody(th)]
             [] th.pc = "lruDecrease" ->
                  /\ arc' = [arc EXCEPT !.lruPart_ = lessLru.part]
                  /\ threads' = [threads EXCEPT ![t].pc =
                                    IF lessLru.ok THEN "lfuIncrease" ELSE ArcBody(th)]
             [] th.pc = "lfuIncrease" ->
                  /\ arc' = [arc EXCEPT !.lfuPart_ = ArcLfuIncreaseCapacity(@)]
                  /\ threads' = [threads EXCEPT ![t].pc = ArcBody(th)]
             [] OTHER -> FALSE
    /\ UNCHANGED <<seq, lru, lruk, lfu, mutex_, forked>>

\* The rest of put: inLfu = lfuPart_->contain(key); lruPart_->put;
\* if (inLfu) lfuPart_->put.
ArcPutStep(t) ==
    /\ policy = "arc"
    /\ LET th == threads[t]
       IN  CASE th.pc = "contain" ->
                  /\ arc' = arc
                  /\ threads' = [threads EXCEPT
                        ![t].pc = "lruPut",
                        ![t].local = IF ArcLfuContain(arc.lfuPart_, th.key) THEN 1 ELSE 0]
             [] th.pc = "lruPut" ->
                  /\ arc' = [arc EXCEPT !.lruPart_ = ArcLruPut(@, th.key, th.value).part]
                  /\ threads' = [threads EXCEPT ![t].pc =
                                    IF th.local = 1 THEN "lfuPut" ELSE "done"]
             [] th.pc = "lfuPut" ->
                  /\ arc' = [arc EXCEPT !.lfuPart_ = ArcLfuPut(@, th.key, th.value).part]
                  /\ threads' = [threads EXCEPT ![t].pc = "done"]
             [] OTHER -> FALSE
    /\ UNCHANGED <<seq, lru, lruk, lfu, mutex_, forked>>

\* The rest of get: lruPart_->get, then lfuPart_->put of the value read if
\* shouldTransform, or lfuPart_->get on a miss.
ArcGetStep(t) ==
    /\ policy = "arc"
    /\ LET th == threads[t]
           r == ArcLruGet(arc.lruPart_, th.key, DefaultValue)
           f == ArcLfuGet(arc.lfuPart_, th.key, th.ret)
       IN  CASE th.pc = "lruGet" ->
                  /\ arc' = [arc EXCEPT !.lruPart_ = r.part]
                  /\ threads' = [threads EXCEPT
                        ![t].hit = r.hit, ![t].ret = r.value,
                        ![t].pc = IF ~r.hit THEN "lfuGet"
                                  ELSE IF r.shouldTransform THEN "promote" ELSE "done"]
             [] th.pc = "promote" ->
                  /\ arc' = [arc EXCEPT !.lfuPart_ = ArcLfuPut(@, th.key, th.ret).part]
                  /\ threads' = [threads EXCEPT ![t].pc = "done"]
             [] th.pc = "lfuGet" ->
                  /\ arc' = [arc EXCEPT !.lfuPart_ = f.part]
                  /\ threads' = [threads EXCEPT ![t].pc = "done",
                                                ![t].hit = f.hit, ![t].ret = f.value]
             [] OTHER -> FALSE
    /\ UNCHANGED <<seq, lru, lruk, lfu, mutex_, forked>>

NextArcConc ==
    \/ Fork /\ \A key \in ConcKeys : ArcCallAllowed(key, MaxAccessCount, MaxGhostLen)
    \/ \E t \in Threads : ArcGhostStep(t)
    \/ \E t \in Threads : ArcPutStep(t)
    \/ \E t \in Threads : ArcGetStep(t)
    \/ Join

\* What the claims compare of a KArcCache: the main indices with their
\* values, the ghost indices and the capacities of both parts.
ArcView(c) ==
    [lruMain |-> [k \in DOMAIN c.lruPart_.mainCache_ |-> c.lruPart_.mainCache_[k].value],
     lfuMain |-> [k \in DOMAIN c.lfuPart_.mainCache_ |-> c.lfuPart_.mainCache_[k].value],
     lruGhost |-> c.lruPart_.ghostCache_, lfuGhost |-> c.lfuPart_.ghostCache_,
     lruCapacity |-> c.lruPart_.capacity_, lfuCapacity |-> c.lfuPart_.capacity_]

\* The same calls, allowed for longer.
NextArcDeep ==
    \/ \E key \in Keys : \E value \in ValsOf(key) :
          ArcPutCall(key, value, DeepAccessCount, DeepGhostLen)
    \/ \E key \in Keys : ArcGetCall(key, DeepAccessCount, DeepGhostLen)

(***************************************************************************)
(* KHashLruCaches or KHashLfuCache as the constructed policy.              *)
(***************************************************************************)
InitHash ==
    /\ policy \in {"hashlru", "hashlfu"}
    /\ hashLru \in IF policy = "hashlru"
                   THEN {HashLruNew(c, n) : c \in 0..MaxHashCapacity, n \in {2, MaxSliceNum}}
                   ELSE {HashLruNew(0, 1)}
    /\ hashLfu \in IF policy = "hashlfu"
                   THEN {HashLfuNew(c, n, m) : c \in 0..MaxHashCapacity,
                                               n \in {2, MaxSliceNum}, m \in LfuMaxAverages}
                   ELSE {HashLfuNew(0, 1, 1)}
    /\ lru = IdleLru
    /\ lruk = IdleLruK
    /\ lfu = IdleLfu
    /\ arc = IdleArc
    /\ call = NoCall
    /\ lastPut = NeverPut
    /\ recency = <<>>
    /\ observed = NeverSeen
    /\ scenario = NoScenario
    /\ threads = NoThreads
    /\ mutex_ = 0
    /\ forked = NotForked
    /\ purged = FALSE
    /\ removedKeys = {}
    /\ ghostHit = NoGhostHit

HashLruPutCall(key, value) ==
    /\ policy = "hashlru"
    /\ LET sliceIndex == SliceIndex(key, hashLru.sliceNum_)
       IN  hashLru' = [hashLru EXCEPT !.lruSliceCaches_[sliceIndex] = LruPut(@, key, value)]
    /\ call' = CallRec("put", key, FALSE, DefaultValue, FALSE,
                       HashLruHeld(hashLru) \ HashLruHeld(hashLru'))
    /\ UNCHANGED <<policy, lru, lruk, lfu, arc, lastPut, recency, observed, scenario,
                   conc, dropped, hashLfu>>

HashLruGetCall(key) ==
    /\ policy = "hashlru"
    /\ LET sliceIndex == SliceIndex(key, hashLru.sliceNum_)
           r == LruGet(hashLru.lruSliceCaches_[sliceIndex], key, DefaultValue)
       IN  /\ hashLru' = [hashLru EXCEPT !.lruSliceCaches_[sliceIndex] = r.cache]
           /\ call' = CallRec("get", key, r.hit, r.value, FALSE,
                              HashLruHeld(hashLru) \ HashLruHeld(hashLru'))
    /\ UNCHANGED <<policy, lru, lruk, lfu, arc, lastPut, recency, observed, scenario,
                   conc, dropped, hashLfu>>

HashLfuPutCall(key, value, bound) ==
    /\ policy = "hashlfu"
    /\ LET sliceIndex == SliceIndex(key, hashLfu.sliceNum_)
           slice == hashLfu.lfuSliceCaches_[sliceIndex]
       IN  /\ ~slice.fault
           /\ slice.curTotalNum_ < bound
           /\ \E after \in LfuPut(slice, key, value) :
                 hashLfu' = [hashLfu EXCEPT !.lfuSliceCaches_[sliceIndex] = after]
    /\ call' = CallRec("put", key, FALSE, DefaultValue, FALSE,
                       HashLfuHeld(hashLfu) \ HashLfuHeld(hashLfu'))
    /\ UNCHANGED <<policy, lru, lruk, lfu, arc, lastPut, recency, observed, scenario,
                   conc, dropped, hashLru>>

HashLfuGetCall(key, bound) ==
    /\ policy = "hashlfu"
    /\ LET sliceIndex == SliceIndex(key, hashLfu.sliceNum_)
           slice == hashLfu.lfuSliceCaches_[sliceIndex]
       IN  /\ ~slice.fault
           /\ slice.curTotalNum_ < bound
           /\ \E r \in LfuGet(slice, key, DefaultValue) :
                 /\ hashLfu' = [hashLfu EXCEPT !.lfuSliceCaches_[sliceIndex] = r.cache]
                 /\ call' = CallRec("get", key, r.hit, r.value, FALSE,
                                    HashLfuHeld(hashLfu) \ HashLfuHeld(hashLfu'))
    /\ UNCHANGED <<policy, lru, lruk, lfu, arc, lastPut, recency, observed, scenario,
                   conc, dropped, hashLru>>

\* purge: every slice is purged
HashLfuPurgeCall ==
    /\ policy = "hashlfu"
    /\ hashLfu' = [hashLfu EXCEPT !.lfuSliceCaches_ =
                     [i \in 1..hashLfu.sliceNum_ |-> LfuPurge(@[i])]]
    /\ call' = CallRec("purge", DefaultKey, FALSE, DefaultValue, FALSE,
                       HashLfuHeld(hashLfu))
    /\ UNCHANGED <<policy, lru, lruk, lfu, arc, lastPut, recency, observed, scenario,
                   conc, dropped, hashLru>>

NextHash ==
    \/ \E key \in HashKeys : HashLruPutCall(key, 1)
    \/ \E key \in HashKeys : HashLruGetCall(key)
    \/ \E key \in HashKeys : HashLfuPutCall(key, 1, MaxSliceTotal)
    \/ \E key \in HashKeys : HashLfuGetCall(key, MaxSliceTotal)
    \/ HashLfuPurgeCall

\* One KHashLfuCache of two slices of capacity 1 whose aging pass lowers no
\* frequency, called on two keys of the same slice.
InitHashLfuHot ==
    /\ InitHash
    /\ policy = "hashlfu"
    /\ hashLfu = HashLfuNew(2, 2, 1)

NextHashLfuHot ==
    \/ \E key \in HotHashKeys : HashLfuPutCall(key, 1, MaxTotalHot)
    \/ \E key \in HotHashKeys : HashLfuGetCall(key, MaxTotalHot)

SpecHash == InitHash /\ [][NextHash]_vars

SpecHashLfuHot == InitHashLfuHot /\ [][NextHashLfuHot]_vars

SpecLru == InitLru /\ [][NextLru]_vars

SpecLruConc == InitLruConc /\ [][NextLruConc]_vars

SpecLruK == InitLruK /\ [][NextLruK]_vars

SpecLfu == InitLfu /\ [][NextLfu]_vars

SpecLruKConc == InitLruKConc /\ [][NextLruKConc]_vars

SpecLfuConc == InitLfuConc /\ [][NextLfuConc]_vars

SpecLfuHot == InitLfuHot /\ [][NextLfuHot]_vars

SpecLfuAging == InitLfuAging /\ [][NextLfuAging]_vars

SpecArc == InitArc /\ [][NextArc]_vars

SpecArcDeep == InitArc /\ [][NextArcDeep]_vars

SpecArcConc == InitArcConc /\ [][NextArcConc]_vars

\* KLruCache or KLfuCache
SpecLruLfu == (InitLru \/ InitLfu) /\ [][NextLru \/ NextLfu]_vars

\* KLruCache or KArcCache
SpecLruArc == (InitLru \/ InitArc) /\ [][NextLru \/ NextArc]_vars

Init == InitLru \/ InitLruK \/ InitLfu \/ InitArc

Next == NextLru \/ NextLruK \/ NextLfu \/ NextArc

Spec == Init /\ [][Next]_vars

(***************************************************************************)
(* The properties checked.                                                 *)
(***************************************************************************)

\* C1: a KLruCache of capacity C never holds more than C entries in
\* nodeMap_, whatever put, get and remove calls were made.
C1_LruCapacityBound ==
    policy = "lru" => Cardinality(DOMAIN lru.nodeMap_) <= lru.capacity_

\* A put of a new key has just found the KLruCache full, evicted, and left
\* it full again.
C1_Witness ==
    /\ policy = "lru"
    /\ call.op = "put" /\ call.full /\ call.evicted # {}
    /\ lru.capacity_ >= 2
    /\ Cardinality(DOMAIN lru.nodeMap_) = lru.capacity_

\* C2: a KLfuCache of capacity C never holds more than C entries in
\* nodeMap_, whatever put, get and purge calls were made, agings and large
\* frequencies included, and every put of a new key into a full cache takes
\* exactly one entry out.
C2_LfuCapacityBound ==
    policy = "lfu" =>
        /\ Cardinality(DOMAIN lfu.nodeMap_) <= lfu.capacity_
        /\ (call.op = "put" /\ call.full => Cardinality(call.evicted) = 1)

\* C3: in every state KArcCache put/get calls can reach, each of ArcLruPart
\* and ArcLfuPart holds at most capacity_ (as the ghost step left it) entries
\* in its main index and at most ghostCapacity_ entries in its ghost index.
C3_ArcSizeBounds ==
    policy = "arc" =>
        /\ Cardinality(DOMAIN arc.lruPart_.mainCache_) <= arc.lruPart_.capacity_
        /\ Cardinality(DOMAIN arc.lfuPart_.mainCache_) <= arc.lfuPart_.capacity_
        /\ Cardinality(arc.lruPart_.ghostCache_) <= arc.lruPart_.ghostCapacity_
        /\ Cardinality(arc.lfuPart_.ghostCache_) <= arc.lfuPart_.ghostCapacity_

\* C4: in a KLruCache or KLfuCache of capacity > 0, a get that hits returns
\* the value of the most recent put of that key, and a get of the key of the
\* put made just before it hits and returns the value put.
C4_PutGetCoherence ==
    [][policy' \in {"lru", "lfu"} =>
         /\ (call'.op = "get" /\ call'.hit => call'.ret = lastPut'[call'.key])
         /\ (/\ call.op = "put" /\ call'.op = "get" /\ call'.key = call.key
             /\ (IF policy = "lru" THEN lru.capacity_ ELSE lfu.capacity_) > 0
             => call'.hit /\ call'.ret = lastPut[call.key])]_vars

\* A get of a full KLfuCache has hit the key whose value was overwritten,
\* and returned the second value.
C4_Witness ==
    /\ policy = "lfu" /\ lfu.capacity_ = 2
    /\ Cardinality(DOMAIN lfu.nodeMap_) = 2
    /\ call.op = "get" /\ call.hit /\ call.key = 1
    /\ call.ret = 2 /\ lastPut[1] = 2
    /\ lfu.nodeMap_[1].freq = 3

\* C5: a KArcCache of capacity > 0 stores every put: the get of the same key
\* made right after a put hits and returns the value put.
C5_ArcPutSucceeds ==
    [][/\ policy = "arc" /\ arc.capacity_ > 0
       /\ call.op = "put" /\ call'.op = "get" /\ call'.key = call.key
       => call'.hit /\ call'.ret = lastPut[call.key]]_vars

\* C6: in each of the four policies, a get of a key that was never the
\* argument of a put reports a miss.
C6_MissReturnsNone ==
    call.op = "get" /\ lastPut[call.key] = DefaultValue => ~call.hit

\* A KLruKCache has counted k gets of a key that was never put, and the get
\* still missed.
C6_Witness ==
    /\ policy = "lruk" /\ call.op = "get" /\ ~call.hit
    /\ lastPut[call.key] = DefaultValue
    /\ lruk.main.capacity_ > 0
    /\ LruKHistoryCount(lruk, call.key) >= lruk.k_ /\ lruk.k_ = 2

\* C7: when a put inserts a new key into an LRU list that is at capacity
\* (KLruCache, or the ArcLruPart of a KArcCache once the ghost step is done),
\* exactly one entry leaves, it is the live entry whose last put or hit-get
\* is the oldest, every other live entry stays, and in the ArcLruPart the
\* evicted key is then in the ghost list.
C7_LruEvictsLeastRecent ==
    [][/\ (policy = "lru" /\ call'.op = "put" /\ call'.full =>
             /\ call'.evicted = {Head(recency)}
             /\ DOMAIN lru'.nodeMap_ =
                  ((DOMAIN lru.nodeMap_) \ {Head(recency)}) \cup {call'.key})
       /\ (policy = "arc" /\ call'.op = "put" /\ call'.full =>
             LET g == ArcCheckGhostCaches(arc, call'.key).lruPart_
                 oldest == Head(Live(recency, DOMAIN g.mainCache_))
             IN  /\ call'.evicted = {oldest}
                 /\ DOMAIN arc'.lruPart_.mainCache_ =
                      ((DOMAIN g.mainCache_) \ {oldest}) \cup {call'.key}
                 /\ oldest \in arc'.lruPart_.ghostCache_
                 /\ \E i \in 1..Len(arc'.lruPart_.ghostList) :
                       arc'.lruPart_.ghostList[i] = [key |-> oldest, mapped |-> TRUE])
      ]_vars

\* The KLruCache of capacity 3 after put(1), put(2), put(3), get(1), put(4):
\* key 2 was evicted and keys 1, 3, 4 are held.
C7_Witness ==
    /\ policy = "lru" /\ lru.capacity_ = 3
    /\ call.op = "put" /\ call.key = 4 /\ call.full /\ call.evicted = {2}
    /\ DOMAIN lru.nodeMap_ = {1, 3, 4}
    /\ recency = <<3, 1, 4>>

\* C8: when a put inserts a new key into a full LFU cache (KLfuCache, or the
\* ArcLfuPart of a KArcCache when a get promotes a key into it), exactly the
\* entry of minimum frequency leaves, and among entries of that frequency
\* the one that arrived at it first: no entry of higher frequency is evicted.
C8_LfuEvictsLeastFrequent ==
    [][/\ (policy = "lfu" /\ call'.op = "put" /\ call'.full =>
             \E victim \in DOMAIN lfu.nodeMap_ :
                /\ call'.evicted = {victim}
                /\ \A other \in DOMAIN lfu.nodeMap_ :
                      lfu.nodeMap_[victim].freq <= lfu.nodeMap_[other].freq
                /\ HasFreqList(lfu, lfu.nodeMap_[victim].freq)
                /\ FreqListNodes(lfu, lfu.nodeMap_[victim].freq) # <<>>
                /\ Head(FreqListNodes(lfu, lfu.nodeMap_[victim].freq)).key = victim)
       /\ (policy = "arc" /\ call'.op = "get" =>
             LET g == ArcCheckGhostCaches(arc, call'.key)
                 r == ArcLruGet(g.lruPart_, call'.key, DefaultValue)
                 f == g.lfuPart_
             IN  /\ r.hit /\ r.shouldTransform
                 /\ call'.key \notin DOMAIN f.mainCache_
                 /\ f.capacity_ # 0
                 /\ Cardinality(DOMAIN f.mainCache_) >= f.capacity_
                 => \E victim \in DOMAIN f.mainCache_ :
                       /\ (DOMAIN f.mainCache_) \ (DOMAIN arc'.lfuPart_.mainCache_)
                            = {victim}
                       /\ \A other \in DOMAIN f.mainCache_ :
                             f.mainCache_[victim].accessCount
                                <= f.mainCache_[other].accessCount
                       /\ Head(ArcLfuList(f, f.mainCache_[victim].accessCount)) = victim)
      ]_vars

\* C9: in a KLruKCache with k >= 1 and main capacity >= 1 no key is in the
\* admitted cache before put/get have observed it k times; and the
\* observation that takes the key's history count (still held by the history)
\* to k, while a pending value is recorded or being put, admits the key with
\* the value of its most recent put.
C9_LruKAdmissionGate ==
    [][policy' = "lruk" /\ lruk'.main.capacity_ >= 1 =>
         /\ \A key \in DOMAIN lruk'.main.nodeMap_ : observed'[key] >= lruk'.k_
         /\ (/\ call'.op \in {"put", "get"}
             /\ call'.key \notin DOMAIN lruk.main.nodeMap_
             /\ LruKHistoryCount(lruk, call'.key) = lruk.k_ - 1
             /\ observed[call'.key] = lruk.k_ - 1
             /\ (call'.op = "put" \/ call'.key \in DOMAIN lruk.historyValueMap_)
             => /\ call'.key \in DOMAIN lruk'.main.nodeMap_
                /\ lruk'.main.nodeMap_[call'.key] = lastPut'[call'.key]
                /\ (call'.op = "get" => call'.hit /\ call'.ret = lastPut'[call'.key]))
      ]_vars

\* k = 2, capacity 1: after put(A, 1), get(A) the key is admitted with
\* value 1 and its history records are cleared.
C9_Witness ==
    /\ policy = "lruk" /\ lruk.k_ = 2 /\ lruk.main.capacity_ = 1
    /\ lruk.historyList_.capacity_ >= 1
    /\ call.op = "get" /\ call.hit /\ call.ret = 1 /\ call.key = 1
    /\ lastPut = [NeverPut EXCEPT ![1] = 1]
    /\ observed = [NeverSeen EXCEPT ![1] = 2]
    /\ lruk.main.nodeMap_ = MapPut(EmptyMap, 1, 1)
    /\ LruKHistoryCount(lruk, 1) = 0
    /\ lruk.historyValueMap_ = EmptyMap

\* C10 as stated: with k = 2, after the single put(B, 2) of a key with no
\* prior history B is not admitted, and the get(B) that follows returns none.
C10_SinglePutGetMisses ==
    [][/\ policy = "lruk" /\ lruk.k_ = 2
       /\ call.op = "put" /\ observed[call.key] = 1
       /\ call'.op = "get" /\ call'.key = call.key
       => /\ call.key \notin DOMAIN lruk.main.nodeMap_
          /\ ~call'.hit]_vars

\* C10 amended: with k = 2, after the single put(B, v) of a key with no prior
\* history B is not admitted; the get(B) that follows is the second
\* observation: if the history still holds B's count it returns v (and admits
\* B when the main capacity is >= 1), and it returns none only if the history
\* did not keep the count.
C10_SinglePutGetAdmits ==
    [][/\ policy = "lruk" /\ lruk.k_ = 2
       /\ call.op = "put" /\ observed[call.key] = 1
       /\ call'.op = "get" /\ call'.key = call.key
       => /\ call.key \notin DOMAIN lruk.main.nodeMap_
          /\ IF LruKHistoryCount(lruk, call.key) = 1
             THEN /\ call'.hit /\ call'.ret = lastPut[call.key]
                  /\ (lruk.main.capacity_ >= 1 =>
                        /\ call.key \in DOMAIN lruk'.main.nodeMap_
                        /\ lruk'.main.nodeMap_[call.key] = lastPut[call.key])
             ELSE ~call'.hit]_vars

\* k = 2: put(B, 2) was the only call and the get(B) that followed returned 2
\* and admitted B.
C10_Witness ==
    /\ policy = "lruk" /\ lruk.k_ = 2 /\ lruk.main.capacity_ = 1
    /\ call.op = "get" /\ call.hit /\ call.ret = 2 /\ call.key = 2
    /\ lastPut = [NeverPut EXCEPT ![2] = 2]
    /\ observed = [NeverSeen EXCEPT ![2] = 2]
    /\ 2 \in DOMAIN lruk.main.nodeMap_

C12_ArcPromotion ==
    /\ policy = "arc" /\ arc.transformThreshold_ = 2
    /\ call.op = "get" /\ call.hit
    /\ AccessCount(arc.lruPart_, call.key) >= 3
    => call.key \in DOMAIN arc.lfuPart_.mainCache_

\* C13: in every state KArcCache put/get calls can reach, no key is in both
\* the main index and the ghost index of the ArcLruPart, and no key is in
\* both the main index and the ghost index of the ArcLfuPart.
C13_MainGhostDisjoint ==
    policy = "arc" =>
        /\ (DOMAIN arc.lruPart_.mainCache_) \cap arc.lruPart_.ghostCache_ = {}
        /\ (DOMAIN arc.lfuPart_.mainCache_) \cap arc.lfuPart_.ghostCache_ = {}

\* C14: in a KLfuCache of capacity 2 and maxAverageNum 4, after put(k1),
\* 20 gets that hit k1, put(k2) and one get that hits k2, both keys are
\* held; and the put of a third key k3 that follows evicts k2 and keeps k1,
\* whatever the order in which the aging passes visited nodeMap_.
C14_AgingKeepsHotKey ==
    /\ (scenario.phase = 3 => {scenario.k1, scenario.k2} \subseteq DOMAIN lfu.nodeMap_)
    /\ (scenario.phase = 4 =>
          /\ call.evicted = {scenario.k2}
          /\ scenario.k1 \in DOMAIN lfu.nodeMap_)

\* C15: when several threads call put, get and remove on one KLruCache at
\* once, a thread between its find and its return holds the mutex and no
\* other thread does, a thread that has returned holds nothing, and once all
\* calls have returned their results and the cache are those of making the
\* same calls one after another in some order.
C15_LruLinearisable ==
    policy = "lru" =>
        /\ \A t \in Threads :
              (threads[t].pc \in {"find", "apply", "unlock"}) = (mutex_ = t)
        /\ (AllDone =>
              \E run \in SerialRuns(forked, Threads, Returned) :
                 run.cache = lru /\ run.results = Returned)

\* Two threads have returned from put(1, 2) and get(1) on a KLruCache that
\* was full without key 1: the get ran second and hit.
C15_Witness ==
    /\ policy = "lru" /\ AllDone /\ mutex_ = 0
    /\ lru.capacity_ = 1 /\ DOMAIN forked.nodeMap_ = {2}
    /\ threads[1].op = "put" /\ threads[1].key = 1 /\ threads[1].value = 2
    /\ threads[2].op = "get" /\ threads[2].key = 1
    /\ threads[2].hit /\ threads[2].ret = 2
    /\ DOMAIN lru.nodeMap_ = {1}

\* C16: when several threads call put and get on one KArcCache at once, then
\* once all calls have returned, their results and the cache (main indices
\* with their values, ghost indices and capacities of both parts) are those
\* of making the same calls one after another in some order.
C16_ArcAtomic ==
    policy = "arc" /\ AllDone =>
        \E run \in SerialRuns(forked, Threads, Returned) :
           ArcView(run.cache) = ArcView(arc) /\ run.results = Returned

\* C17: whatever put, get and purge calls the other threads make on one
\* KLfuCache, a put or get that is inside its critical section (between its
\* find and its return) never sees nodeMap_ and freqToFreqList_ disagree.
C17_PurgeExcluded ==
    policy = "lfu" =>
        \A t \in Threads :
           threads[t].op \in {"put", "get"} /\ threads[t].pc \in {"find", "apply", "unlock"}
           => LfuIndicesAgree(lfu)

\* C18: once the concurrent calls on one KLruKCache have all returned, the
\* values the gets returned and the admitted entries are those of the same
\* calls made one after another in some order; in particular two concurrent
\* put(x, v) on a fresh key x with k = 2 leave x admitted.
C18_LruKLinearisable ==
    policy = "lruk" /\ AllDone =>
        \E run \in SerialRuns(forked, Threads, Returned) :
           /\ run.cache.main.nodeMap_ = lruk.main.nodeMap_
           /\ \A t \in Threads : run.results[t].ret = Returned[t].ret

\* C19: a KArcCache of capacity C never holds live values for more than C
\* distinct keys, counting the keys of the LRU part's main index together
\* with those of the LFU part's main index.
C19_ArcTotalCapacity ==
    policy = "arc" =>
        Cardinality((DOMAIN arc.lruPart_.mainCache_) \cup (DOMAIN arc.lfuPart_.mainCache_))
            <= arc.capacity_

\* C20: a policy constructed with capacity 0 (KLruCache, KLfuCache,
\* KArcCache, or KLruKCache with main capacity 0, any k) stores nothing: its
\* main index stays empty whatever is put, and every get reports a miss and
\* returns no stored value.
C20_CapacityZeroStoresNothing ==
    LET capacity == CASE policy = "lru" -> lru.capacity_
                      [] policy = "lruk" -> lruk.main.capacity_
                      [] policy = "lfu" -> lfu.capacity_
                      [] policy = "arc" -> arc.capacity_
        held == CASE policy = "lru" -> DOMAIN lru.nodeMap_
                  [] policy = "lruk" -> DOMAIN lruk.main.nodeMap_
                  [] policy = "lfu" -> DOMAIN lfu.nodeMap_
                  [] policy = "arc" -> (DOMAIN arc.lruPart_.mainCache_)
                                          \cup (DOMAIN arc.lfuPart_.mainCache_)
    IN  capacity = 0 =>
           /\ held = {}
           /\ call.op = "get" => ~call.hit /\ call.ret = DefaultValue

\* C21: after purge() on a KLfuCache every get misses and returns no value
\* until the next put, and a purge() of a cache already purged leaves it as
\* it is.
C21_PurgeEmpties ==
    [][/\ policy' = "lfu" /\ purged' /\ call'.op = "get"
          => ~call'.hit /\ call'.ret = DefaultValue
       /\ policy = "lfu" /\ purged /\ call'.op = "purge"
          => lfu' = lfu]_vars

\* A get of a key that was put before the purge, made after the purge.
C21_Witness ==
    /\ policy = "lfu" /\ purged
    /\ call.op = "get" /\ ~call.hit
    /\ lastPut[call.key] # DefaultValue
    /\ lfu.capacity_ > 0

\* C22: purge() leaves a KLfuCache as a freshly constructed one of the same
\* capacity and maxAverageNum: no entry, and curTotalNum_, curAverageNum_
\* and minFreq_ back at their initial values.
C22_PurgeResetsCounters ==
    policy = "lfu" /\ call.op = "purge" =>
        lfu = LfuNew(lfu.capacity_, lfu.maxAverageNum_)

\* C23: a put or get on key k of a KHashLruCaches or KHashLfuCache changes
\* no slice other than slice Hash(k) % sliceNum_, evicts only keys of that
\* slice, and leaves no slice with more entries than
\* ceil(capacity / sliceNum_).
C23_ShardingIndependence ==
    [][call'.op \in {"put", "get"} =>
         LET before == IF policy = "hashlru" THEN hashLru.lruSliceCaches_
                       ELSE hashLfu.lfuSliceCaches_
             after == IF policy = "hashlru" THEN hashLru'.lruSliceCaches_
                      ELSE hashLfu'.lfuSliceCaches_
             capacity == IF policy = "hashlru" THEN hashLru.capacity_
                         ELSE hashLfu.capacity_
             n == Len(before)
             own == (Hash(call'.key) % n) + 1
         IN  /\ \A i \in 1..n : i # own => after[i] = before[i]
             /\ \A k \in call'.evicted : (Hash(k) % n) + 1 = own
             /\ \A i \in 1..n :
                   Cardinality(DOMAIN after[i].nodeMap_) <= (capacity + n - 1) \div n]_vars

\* C24: on a KLruCache, remove(k) of a live key takes k out and lowers the
\* entry count by one, remove(k) of an absent key changes nothing, both
\* leave the values and the relative recency order of the other entries as
\* they were, and every get(k) after a remove(k) misses until k is put
\* again.
C24_LruRemove ==
    [][policy = "lru" =>
         /\ call'.op = "remove" =>
               LET k == call'.key
               IN  /\ k \notin DOMAIN lru'.nodeMap_
                   /\ k \in DOMAIN lru.nodeMap_ =>
                         Cardinality(DOMAIN lru'.nodeMap_)
                            = Cardinality(DOMAIN lru.nodeMap_) - 1
                   /\ k \notin DOMAIN lru.nodeMap_ => lru' = lru
                   /\ \A j \in (DOMAIN lru.nodeMap_) \ {k} :
                         j \in DOMAIN lru'.nodeMap_ /\ lru'.nodeMap_[j] = lru.nodeMap_[j]
                   /\ lru'.list = SeqRemove(lru.list, k)
         /\ call'.op = "get" /\ call'.key \in removedKeys' =>
               ~call'.hit /\ call'.ret = DefaultValue]_vars

\* A live key was removed from a cache that holds two other entries.
C24_Witness ==
    /\ policy = "lru"
    /\ call.op = "remove" /\ call.evicted = {call.key}
    /\ Len(lru.list) >= 2

\* C25: after every public operation that leaves a KLfuCache, or the
\* ArcLfuPart of a KArcCache, non-empty, minFreq_ is the smallest frequency
\* of a live entry.
C25_MinFreqIsLeast ==
    /\ policy = "lfu" /\ DOMAIN lfu.nodeMap_ # {} /\ ~lfu.fault =>
          /\ \E key \in DOMAIN lfu.nodeMap_ : lfu.nodeMap_[key].freq = lfu.minFreq_
          /\ \A key \in DOMAIN lfu.nodeMap_ : lfu.nodeMap_[key].freq >= lfu.minFreq_
    /\ policy = "arc" /\ DOMAIN arc.lfuPart_.mainCache_ # {} =>
          /\ \E key \in DOMAIN arc.lfuPart_.mainCache_ :
                arc.lfuPart_.mainCache_[key].accessCount = arc.lfuPart_.minFreq_
          /\ \A key \in DOMAIN arc.lfuPart_.mainCache_ :
                arc.lfuPart_.mainCache_[key].accessCount >= arc.lfuPart_.minFreq_

\* C26: a KLfuCache put (capacity > 0) or hit raises curTotalNum_ by one and
\* runs an aging pass exactly when curTotalNum_ / nodeMap_.size() then
\* exceeds maxAverageNum_; the pass turns every live frequency f into
\* max(1, f - maxAverageNum_ / 2), changes no key and no value, evicts
\* nothing, and keeps the order of the frequencies.
C26_AgingStep ==
    [][policy = "lfu"
       /\ ((call'.op = "put" /\ lfu.capacity_ > 0) \/ (call'.op = "get" /\ call'.hit)) =>
         LET k == call'.key
             live == DOMAIN lfu'.nodeMap_
             unaged == [j \in live |->
                          IF j # k THEN lfu.nodeMap_[j].freq
                          ELSE IF k \in DOMAIN lfu.nodeMap_ THEN lfu.nodeMap_[k].freq + 1
                          ELSE 1]
             evictedFreq == IF call'.evicted = {} THEN 0
                            ELSE lfu.nodeMap_[CHOOSE j \in call'.evicted : TRUE].freq
             aging == CDiv(lfu'.curTotalNum_, Cardinality(live)) > lfu.maxAverageNum_
             lowered(f) == IF f - CDiv(lfu.maxAverageNum_, 2) < 1 THEN 1
                           ELSE f - CDiv(lfu.maxAverageNum_, 2)
         IN  /\ lfu'.curTotalNum_ = lfu.curTotalNum_ - evictedFreq + 1
             /\ live = ((DOMAIN lfu.nodeMap_) \ call'.evicted) \cup {k}
             /\ call'.evicted # {} => call'.op = "put" /\ k \notin DOMAIN lfu.nodeMap_
             /\ \A j \in live \ {k} : lfu'.nodeMap_[j].value = lfu.nodeMap_[j].value
             /\ \A j \in live :
                   lfu'.nodeMap_[j].freq = IF aging THEN lowered(unaged[j]) ELSE unaged[j]
             /\ \A a, b \in live :
                   unaged[a] <= unaged[b] => lfu'.nodeMap_[a].freq <= lfu'.nodeMap_[b].freq]_vars

\* A hit has just run an aging pass over two live entries that took the
\* frequency of the key hit from 4 or more down by maxAverageNum_ / 2.
C26_Witness ==
    /\ policy = "lfu" /\ lfu.maxAverageNum_ = 4
    /\ call.op = "get" /\ call.hit
    /\ lfu.curAverageNum_ > lfu.maxAverageNum_
    /\ Cardinality(DOMAIN lfu.nodeMap_) = 2
    /\ lfu.nodeMap_[call.key].freq >= 2

\* C27: between the operations on a KLfuCache, curTotalNum_ is the sum of
\* the frequencies of the live entries, so that curTotalNum_ /
\* nodeMap_.size() is their mean.
C27_TotalIsFreqSum ==
    policy = "lfu" => lfu.curTotalNum_ = LfuFreqSum(lfu, DOMAIN lfu.nodeMap_)

\* C28: in every state a KLfuCache reaches by sequential put, get and purge,
\* a key is in nodeMap_ iff its node is linked in exactly one FreqList, that
\* list is the one of the node's current frequency, and no FreqList links a
\* node that nodeMap_ does not hold.
C28_IndexBucketConsistent ==
    policy = "lfu" /\ ~lfu.fault =>
        /\ LfuIndicesAgree(lfu)
        /\ \A key \in DOMAIN lfu.nodeMap_ :
              /\ \A e \in lfu.freqToFreqList_ :
                    Len(SelectSeq(e.nodes, LAMBDA n : n.key = key))
                       = IF e.freq = lfu.nodeMap_[key].freq THEN 1 ELSE 0

\* C29: in every state of a KLruKCache, every key with a pending value in
\* historyValueMap_ has a counter in historyList_, so the pending values
\* never outnumber the history capacity.
C29_PendingBoundedByHistory ==
    policy = "lruk" =>
        /\ DOMAIN lruk.historyValueMap_ \subseteq DOMAIN lruk.historyList_.nodeMap_
        /\ Cardinality(DOMAIN lruk.historyValueMap_) <= lruk.historyList_.capacity_

\* C30: in every state reached by sequential KArcCache put/get calls the
\* capacities of the two parts add up to 2 * capacity_, their sum at
\* construction; one put or get changes the capacity of each part by at most
\* one; and a call whose key is in a ghost list while the donor part's
\* capacity is already 0 changes neither capacity.
C30_ArcCapacityConserved ==
    [][policy = "arc" /\ call'.op \in {"put", "get"} =>
         LET key == call'.key
             l == arc.lruPart_
             f == arc.lfuPart_
             dl == arc'.lruPart_.capacity_ - l.capacity_
             df == arc'.lfuPart_.capacity_ - f.capacity_
         IN  /\ l.capacity_ + f.capacity_ = 2 * arc.capacity_
             /\ arc'.lruPart_.capacity_ + arc'.lfuPart_.capacity_ = 2 * arc'.capacity_
             /\ arc'.capacity_ = arc.capacity_
             /\ dl \in {-1, 0, 1} /\ df \in {-1, 0, 1}
             /\ (key \in l.ghostCache_ /\ f.capacity_ = 0 => dl = 0 /\ df = 0)
             /\ (key \notin l.ghostCache_ /\ key \in f.ghostCache_ /\ l.capacity_ = 0 =>
                   dl = 0 /\ df = 0)]_vars

\* A call found its key in the recency ghost list while the frequency part had
\* no capacity left to give, and the capacities are what they were.
C30_Witness ==
    /\ policy = "arc" /\ arc.capacity_ > 0
    /\ call.op \in {"put", "get"}
    /\ ghostHit.list = "lru" /\ ghostHit.lfu = 0
    /\ arc.lfuPart_.capacity_ = 0
    /\ arc.lruPart_.capacity_ = ghostHit.lru
    /\ arc.lruPart_.capacity_ = 2 * arc.capacity_

\* C31: in every state reached by sequential KArcCache put/get calls, a key
\* held by both the recency part's and the frequency part's main index has
\* the same value in both, and a get that hits, from either part, returns
\* the value of the most recent put of its key.
C31_ArcValueCoherence ==
    policy = "arc" =>
        /\ \A key \in (DOMAIN arc.lruPart_.mainCache_) \cap (DOMAIN arc.lfuPart_.mainCache_) :
              arc.lruPart_.mainCache_[key].value = arc.lfuPart_.mainCache_[key].value
        /\ (call.op = "get" /\ call.hit => call.ret = lastPut[call.key])

\* Key 1 is held by both parts with the second value put for it, and the get
\* that has just hit returned that value.
C31_Witness ==
    /\ policy = "arc"
    /\ 1 \in (DOMAIN arc.lruPart_.mainCache_) \cap (DOMAIN arc.lfuPart_.mainCache_)
    /\ arc.lruPart_.mainCache_[1].value = 2
    /\ arc.lfuPart_.mainCache_[1].value = 2
    /\ arc.lfuPart_.mainCache_[1].accessCount >= 2
    /\ call.op = "get" /\ call.key = 1 /\ call.hit /\ call.ret = 2
    /\ lastPut[1] = 2

\* C32: a KArcCache get of a key that is in the recency part's or the
\* frequency part's main index when the call is made hits and returns the
\* key's value: the ghost step at the start of the call never evicts the key
\* itself.
C32_ArcGetKeepsLiveKey ==
    [][policy = "arc" /\ call'.op = "get" =>
         LET key == call'.key
             l == arc.lruPart_.mainCache_
             f == arc.lfuPart_.mainCache_
         IN  key \in (DOMAIN l) \cup (DOMAIN f) =>
                 /\ call'.hit
                 /\ call'.ret = IF key \in DOMAIN l THEN l[key].value ELSE f[key].value
                 /\ key \in (DOMAIN arc'.lruPart_.mainCache_)
                              \cup (DOMAIN arc'.lfuPart_.mainCache_)]_vars

====
